---- MODULE Spec2Model ----
(***************************************************************************)
(* Model of the chatgpt generation loop (ChatModel in chatgpt/model.py),   *)
(* its tool dispatcher (ToolsManager and Tool in chatgpt/tools.py) and the *)
(* events it reports (EventsManager in chatgpt/events.py).                 *)
(*                                                                         *)
(* The base class chatgpt.openai.OpenAIModel (run, stop, _generate_reply,  *)
(* _cancelable, _running) is modelled from the design document: its        *)
(* definitions are marked in the comments below.                           *)
(***************************************************************************)
EXTENDS Integers, Sequences, FiniteSets, TLC

\* ----------------------------------------------------------------- bounds
\* Generation passes per run.
MaxPasses == 2
\* Streamed packets per generation pass.
MaxPackets == 1
\* Arguments supplied with one tool request.
MaxArgs == 2
\* Observers registered with one EventsManager.
MaxHandlers == 2
\* Message ids stored in the database.
MaxMessages == 2
\* Packets streamed to a ModelMessageHandler in one generation pass.
MaxStream == 23

\* ------------------------------------------------------------ value model
\* A message or a returned value. type is the concrete Python type; "None"
\* is Python's None and "str" a bare string (not a Message).
Msg(id, type, content, name, finish, tool, args) ==
    [id |-> id, type |-> type, content |-> content, name |-> name,
     finish |-> finish, tool |-> tool, args |-> args]

NoneVal == Msg(0, "None", <<>>, "", "", "", <<>>)

UserMessage(id, content) == Msg(id, "UserMessage", content, "", "", "", <<>>)

ModelMessage(id, content, finish) ==
    Msg(id, "ModelMessage", content, "", finish, "", <<>>)

ToolUsage(id, tool, args, finish) ==
    Msg(id, "ToolUsage", <<>>, "", finish, tool, args)

\* chatgpt.core.ToolResult(content, name)
ToolResultMsg(id, content, name) ==
    Msg(id, "ToolResult", content, name, "", "", <<>>)

StrVal(content) == Msg(0, "str", content, "", "", "", <<>>)

\* isinstance(m, chatgpt.core.ToolUsage)
IsToolUsage(m) == m.type = "ToolUsage"

\* isinstance(m, chatgpt.core.ModelMessage): ToolUsage is a subclass.
IsModelMessage(m) == m.type \in {"ModelMessage", "ToolUsage"}

\* isinstance(m, chatgpt.core.ToolResult)
IsToolResult(m) == m.type = "ToolResult"

\* -------------------------------------------------------------- the tools
Param(name, optional) == [name |-> name, optional |-> optional]

\* The tools registered with the ToolsManager: one tool with a required
\* parameter "city" and an optional parameter "unit", and one tool without
\* parameters.
Tools ==
    << [name |-> "weather",
        parameters |-> << Param("city", FALSE), Param("unit", TRUE) >>],
       [name |-> "clock", parameters |-> << >>] >>

\* The tool requests the model may generate: (tool name, supplied argument
\* names in the order of the JSON object). "ghost" is not registered.
ArgNames == {"city", "unit", "bogus"}

\* The keys of a JSON object, in order: no name twice.
ArgLists ==
    { a \in UNION { [1..n -> ArgNames] : n \in 0..MaxArgs } :
        \A i, j \in 1..Len(a) : i # j => a[i] # a[j] }

UsageInputs ==
    ({"weather"} \X ArgLists)
    \cup { <<"clock", << >> >>, <<"clock", <<"city">> >>,
           <<"ghost", << >> >>, <<"ghost", <<"city">> >> }

\* What a tool body may return, and the message of the exception it may raise.
BodyTexts == { <<"18C">> }
BodyErrors == { <<"boom">> }

SeqToSet(s) == { s[i] : i \in 1..Len(s) }

\* ToolsManager._tool_from_name: the index of the first tool of that name,
\* 0 when the loop ends without one (the code then raises ToolError).
ToolFromName(name) ==
    IF \E i \in 1..Len(Tools) : Tools[i].name = name
    THEN CHOOSE i \in 1..Len(Tools) :
            /\ Tools[i].name = name
            /\ \A j \in 1..(i - 1) : Tools[j].name # name
    ELSE 0

\* The first element of the list s that satisfies Bad, as the for loops of
\* _validate_params find it; 0 when there is none.
RECURSIVE FirstIndex(_, _, _)
FirstIndex(s, bad, i) ==
    IF i > Len(s) THEN 0
    ELSE IF s[i] \in bad THEN i
    ELSE FirstIndex(s, bad, i + 1)

PossibleParams(tool) == [i \in 1..Len(tool.parameters) |-> tool.parameters[i].name]

RequiredParams(tool) ==
    SelectSeq(tool.parameters, LAMBDA p : ~p.optional)

RequiredNames(tool) ==
    [i \in 1..Len(RequiredParams(tool)) |-> RequiredParams(tool)[i].name]

\* Mutant: the loop over the required parameters (lines 97-99) left out.
ValidateParams_NoRequiredCheck(tool, params) ==
    LET possible == SeqToSet(PossibleParams(tool))
        inv == FirstIndex(params, SeqToSet(params) \ possible, 1)
    IN  IF inv # 0
        THEN [ok |-> FALSE, error |-> <<"Invalid argument", params[inv]>>]
        ELSE [ok |-> TRUE, error |-> << >>]

\* Tool._validate_params: the ToolError it raises, or ok.
ValidateParams(tool, params) ==
    LET possible == SeqToSet(PossibleParams(tool))
        required == RequiredNames(tool)
        inv == FirstIndex(params, SeqToSet(params) \ possible, 1)
        mis == FirstIndex(required, SeqToSet(required) \ SeqToSet(params), 1)
    IN  IF inv # 0
        THEN [ok |-> FALSE, error |-> <<"Invalid argument", params[inv]>>]
        ELSE IF mis # 0
        THEN [ok |-> FALSE,
              error |-> <<"Missing required argument", required[mis]>>]
        ELSE [ok |-> TRUE, error |-> << >>]

\* Mutant: lines 29-31 left out, the raw result is returned.
WrapResult_Never(toolIdx, result, id) == result

\* ToolsManager.use, lines 29-31: a result that is not None is wrapped as
\* a ToolResult only when the tool was found.
WrapResult(toolIdx, result, id) ==
    IF toolIdx # 0 /\ result.type # "None"
    THEN ToolResultMsg(id, result.content, Tools[toolIdx].name)
    ELSE result

\* ------------------------------------------------------------------ state
VARIABLES
    pc,          \* where the run is: see the actions
    running,     \* OpenAIModel._running
    stopAt,      \* history: where the run was when stop() was delivered
    cancelling,  \* a cancellation is being delivered to the suspended call
    memory,      \* memory.chat_history, in order
    memAtStop,   \* history: the memory when stop() was delivered
    events,      \* history: the events triggered, in order
    reply,       \* _run_model's reply
    results,     \* _use_tool's results
    retval,      \* what run() returned
    pass,        \* generation passes requested from the streaming client
    packets,     \* packets received in the current pass
    nextId,      \* the next message id
    uses,        \* history: one record per ToolsManager.use call
    contexts,    \* history: the context of each _generate_reply call that
                 \* started a pass
    active,      \* the streaming calls and tool bodies in progress
    config,      \* the ModelConfig the caller passed to the loop
    em,          \* an EventsManager with its observers, and one trigger
    ser,         \* one object taken through construction and serialization
    mgr,         \* a ToolsManager shared by two conversations
    db,          \* the messages table of the database
    ch,          \* a ModelMessageHandler receiving a stream of packets
    met          \* a MetricsHandler and the events delivered to it

vars == << pc, running, stopAt, cancelling, memory, memAtStop, events,
           reply, results, retval, pass, packets, nextId, uses, contexts,
           active, config >>

\* The state of the components a run of the loop does not touch.
aux == << em, ser, mgr, db, ch, met >>

\* A component that takes no part in the specification checked.
Unused == [phase |-> "unused"]

\* An event as the observers receive it, with the pass it was triggered in.
Event(type, msg) == [type |-> type, msg |-> msg, pass |-> pass, ctx |-> << >>]

StartEvent(ctx) ==
    [type |-> "model_start", msg |-> NoneVal, pass |-> pass + 1, ctx |-> ctx]

\* The ModelConfig of the caller: its defaults (ModelConfig.__init__) with
\* tool usage disabled. Sampling values are in tenths.
CallerConfig ==
    [chat_model |-> "gpt-3.5-turbo-0613", allowed_tool |-> "",
     max_tokens |-> 256, streaming |-> TRUE, stop_sequences |-> "<|METADATA|>",
     temperature |-> 10, presence_penalty |-> 0, frequency_penalty |-> 0]

\* ModelConfig.to_dict: the request parameters built from the config.
ToDict(cfg) ==
    [model |-> cfg.chat_model,
     function_call |-> IF cfg.allowed_tool = "" THEN "none" ELSE cfg.allowed_tool,
     max_tokens |-> cfg.max_tokens,
     stop |-> cfg.stop_sequences,
     temperature |-> cfg.temperature,
     presence_penalty |-> cfg.presence_penalty,
     frequency_penalty |-> cfg.frequency_penalty,
     stream |-> cfg.streaming]

\* Mutant: to_dict storing the normalised function_call back into the config.
ConfigAfterToDict_WritesBack(cfg) ==
    [cfg EXCEPT !.allowed_tool = ToDict(cfg).function_call]

\* ModelConfig.to_dict assigns no attribute of the config it reads.
ConfigAfterToDict(cfg) == cfg

\* The conversations a run may start from.
InitialHistories ==
    { << >>,
      << UserMessage(1, <<"earlier">>),
         ModelMessage(2, <<"answer">>, "DONE") >> }

Init ==
    /\ pc = "idle"
    /\ running = FALSE
    /\ stopAt = "none"
    /\ cancelling = FALSE
    /\ memory \in InitialHistories
    /\ memAtStop = << >>
    /\ events = << >>
    /\ reply = NoneVal
    /\ results = NoneVal
    /\ retval = NoneVal
    /\ pass = 0
    /\ packets = 0
    /\ nextId = 3
    /\ uses = << >>
    /\ contexts = << >>
    /\ active = [gen |-> 0, tool |-> 0]
    /\ config = CallerConfig
    /\ em = Unused
    /\ ser = Unused
    /\ mgr = Unused
    /\ db = Unused
    /\ ch = Unused
    /\ met = Unused

\* ------------------------------------------------- the loop's decisions
\* Mutant: line 39 without "and self._running".
ShouldUseTool_IgnoreRunning(r, run) == IsToolUsage(r)

\* Mutant: line 39 testing for the wrong class, ToolResult.
ShouldUseTool_WrongType(r, run) == IsToolResult(r) /\ run

\* Mutant: line 39 testing for the base class, ModelMessage.
ShouldUseTool_AnyReply(r, run) == IsModelMessage(r) /\ run

\* _run_model, line 39: the tool branch is taken for a ToolUsage while the
\* model is still running.
ShouldUseTool(r, run) == IsToolUsage(r) /\ run

\* _run_model, line 45: model_reply is triggered for a ModelMessage.
ShouldTriggerReply(r) == IsModelMessage(r)

\* Mutant: line 34 keeping the previous reply when none was generated.
AssignReply_KeepOld(old, new) == IF new.type = "None" THEN old ELSE new

\* _run_model, line 34: reply is what _generate_reply returned.
AssignReply(old, new) == new

\* Mutant: the memory rolled back when the reply was cut by a cancellation.
AddReply_RollbackPartial(mem, r) ==
    IF r.type = "None" THEN mem
    ELSE IF r.finish = "CANCELLED" THEN SubSeq(mem, 1, Len(mem) - 1)
    ELSE Append(mem, r)

\* Mutant: lines 35-36 left out.
AddReply_Forgotten(mem, r) == mem

\* _run_model, lines 35-36: a reply that is not None is added to memory.
AddReply(mem, r) == IF r.type # "None" THEN Append(mem, r) ELSE mem

\* Mutant: line 54 testing for the wrong class, ToolUsage.
ShouldAddResult_WrongType(res) == IsToolUsage(res)

\* _use_tool, line 54: only a ToolResult is reported and added to memory.
ShouldAddResult(res) == IsToolResult(res)

\* Mutant: line 52 without await, the tool call is left running.
NextAfterToolStart_NotAwaited == "generate"

\* _use_tool, line 52: the loop awaits the tool call; where the run is
\* once the tool body has started.
NextAfterToolStart == "tool_running"

\* Mutant: line 34 inside try/except, a failure counting as no reply.
ErrorLeavesLoop_Swallowed == "got_reply"

\* _run_model, line 34: an exception of _generate_reply is not caught; where
\* the run is once it was raised.
ErrorLeavesLoop == "run_failed"

\* Mutant: line 29 left out.
AddNewMessage_Forgotten(mem, m) == mem

\* _run_model, line 29: the new message is added to memory.
AddNewMessage(mem, m) == Append(mem, m)

\* One ToolsManager.use call: the usage it was given, the tool found (0 for
\* none), the validation's verdict, how often the tool body was started,
\* how the call ended and what it returned.
UseRecord(usage, toolIdx, valid, bodyRuns, outcome, ret) ==
    [usage |-> usage, toolIdx |-> toolIdx, valid |-> valid,
     bodyRuns |-> bodyRuns, outcome |-> outcome, ret |-> ret, pass |-> pass]

NoVerdict == [ok |-> FALSE, error |-> << >>]

\* ---------------------------------------------------------------- actions
\* OpenAIModel.run (design document): the run starts and calls _run_model.
Run ==
    /\ pc = "idle"
    /\ running' = TRUE
    /\ pc' = "run_model"
    /\ UNCHANGED << stopAt, cancelling, memory, memAtStop, events, reply,
                    results, retval, pass, packets, nextId, uses,
                    contexts, active >>
    /\ UNCHANGED << config, aux >>

\* _run_model, lines 28-30: the new message is added to memory.
RunModelBegin ==
    /\ pc = "run_model"
    /\ memory' = AddNewMessage(memory, UserMessage(nextId, <<"question">>))
    /\ nextId' = nextId + 1
    /\ reply' = NoneVal
    /\ pc' = "generate"
    /\ UNCHANGED << running, stopAt, cancelling, memAtStop, events,
                    results, retval, pass, packets, uses,
                    contexts, active >>
    /\ UNCHANGED << config, aux >>

\* _generate_reply (design document), called at line 34 while the loop runs:
\* model_start is triggered with the full context when the run enters
\* GENERATING, and the streaming client is invoked.
GenerateReplyBegin ==
    /\ pc = "generate"
    /\ running
    /\ pass < MaxPasses
    /\ events' = IF pass = 0 THEN Append(events, StartEvent(memory)) ELSE events
    /\ pass' = pass + 1
    /\ packets' = 0
    /\ pc' = "streaming"
    /\ UNCHANGED << running, stopAt, cancelling, memory, memAtStop, reply,
                    results, retval, nextId, uses >>
    /\ contexts' = Append(contexts, memory)
    /\ active' = [active EXCEPT !.gen = @ + 1]
    /\ config' = ConfigAfterToDict(config)
    /\ UNCHANGED aux

\* _generate_reply (design document), called at line 34 after the loop was
\* interrupted: INTERRUPTED is absorbing, no pass is requested and no reply
\* is produced.
GenerateReplySkipped ==
    /\ pc = "generate"
    /\ ~running
    /\ reply' = AssignReply(reply, NoneVal)
    /\ pc' = "got_reply"
    /\ UNCHANGED << running, stopAt, cancelling, memory, memAtStop, events,
                    results, retval, pass, packets, nextId, uses,
                    contexts, active >>
    /\ UNCHANGED << config, aux >>

\* The streaming client delivers a partial packet: model_generation.
StreamPacket ==
    /\ pc = "streaming"
    /\ ~cancelling
    /\ packets < MaxPackets
    /\ events' = Append(events,
                    Event("model_generation",
                          ModelMessage(0, <<"tok">>, "UNDEFINED")))
    /\ packets' = packets + 1
    /\ UNCHANGED << pc, running, stopAt, cancelling, memory, memAtStop,
                    reply, results, retval, pass, nextId, uses,
                    contexts, active >>
    /\ UNCHANGED << config, aux >>

\* The stream completes with a final message m: model_end(m) is triggered
\* and _generate_reply returns m.
StreamDone(m) ==
    /\ pc = "streaming"
    /\ ~cancelling
    /\ events' = Append(events, Event("model_end", m))
    /\ reply' = AssignReply(reply, m)
    /\ nextId' = nextId + 1
    /\ pc' = "got_reply"
    /\ UNCHANGED << running, stopAt, cancelling, memory, memAtStop,
                    results, retval, pass, packets, uses,
                    contexts >>
    /\ active' = [active EXCEPT !.gen = @ - 1]
    /\ UNCHANGED << config, aux >>

\* The pass ends with a terminal message.
StreamDoneReply ==
    \E f \in {"DONE", "LIMIT_REACHED"} :
        StreamDone(ModelMessage(nextId, <<"reply">>, f))

\* The pass ends with a tool request.
StreamDoneToolUsage ==
    /\ pass < MaxPasses
    /\ \E u \in UsageInputs : StreamDone(ToolUsage(nextId, u[1], u[2], "TOOL_USE"))

\* The streaming client fails (a connection error, a token limit, a timeout):
\* _generate_reply raises at line 34 (design document).
StreamError ==
    /\ pc = "streaming"
    /\ ~cancelling
    /\ pc' = "gen_raised"
    /\ active' = [active EXCEPT !.gen = @ - 1]
    /\ UNCHANGED << running, stopAt, cancelling, memory, memAtStop, events,
                    reply, results, retval, pass, packets, nextId, uses,
                    contexts >>
    /\ UNCHANGED << config, aux >>

\* _run_model, lines 32-47: no handler surrounds line 34, the exception
\* leaves the loop and _run_model; nothing is added, triggered or returned.
RunModelRaises ==
    /\ pc = "gen_raised"
    /\ pc' = ErrorLeavesLoop
    /\ reply' = IF ErrorLeavesLoop = "run_failed" THEN reply ELSE NoneVal
    /\ UNCHANGED << running, stopAt, cancelling, memory, memAtStop, events,
                    results, retval, pass, packets, nextId, uses, contexts,
                    active >>
    /\ UNCHANGED << config, aux >>

\* OpenAIModel.run (design document): the failure of the streaming client
\* is reported with model_error and the run ends without a reply.
RunFails ==
    /\ pc = "run_failed"
    /\ events' = Append(events, Event("model_error", NoneVal))
    /\ retval' = NoneVal
    /\ running' = FALSE
    /\ pc' = "ended"
    /\ UNCHANGED << stopAt, cancelling, memory, memAtStop, reply, results,
                    pass, packets, nextId, uses, contexts, active >>
    /\ UNCHANGED << config, aux >>

\* OpenAIModel.stop (design document): delivered while the loop is suspended
\* on the streaming call or on the tool call; it marks the loop interrupted,
\* cancels the suspended call and triggers model_interrupt.
Stop ==
    /\ pc \in {"streaming", "tool_running"}
    /\ running
    /\ ~cancelling
    /\ running' = FALSE
    /\ stopAt' = pc
    /\ cancelling' = TRUE
    /\ memAtStop' = memory
    /\ events' = Append(events, Event("model_interrupt", NoneVal))
    /\ UNCHANGED << pc, memory, reply, results, retval, pass, packets, nextId,
                    uses,
                    contexts, active >>
    /\ UNCHANGED << config, aux >>

\* The tool requests a cancelled stream may have aggregated so far.
PartialUsages == { <<"weather", <<"city">> >>, <<"ghost", << >> >> }

\* What a cancelled streaming call leaves: nothing, or the partial message
\* aggregated from the packets received so far.
PartialReplies ==
    {NoneVal}
    \cup (IF packets > 0
          THEN {ModelMessage(nextId, <<"tok">>, "CANCELLED")}
               \cup { ToolUsage(nextId, u[1], u[2], "CANCELLED") :
                        u \in PartialUsages }
          ELSE {})

\* The cancelled streaming call unwinds: _generate_reply returns the
\* potentially partial reply (line 35).
StreamCancelled ==
    /\ pc = "streaming"
    /\ cancelling
    /\ \E m \in PartialReplies :
        /\ reply' = AssignReply(reply, m)
        /\ nextId' = IF m.type = "None" THEN nextId ELSE nextId + 1
    /\ cancelling' = FALSE
    /\ pc' = "got_reply"
    /\ UNCHANGED << running, stopAt, memory, memAtStop, events, results,
                    retval, pass, packets, uses,
                    contexts >>
    /\ active' = [active EXCEPT !.gen = @ - 1]
    /\ UNCHANGED << config, aux >>

\* _run_model, lines 35-40 and _use_tool, line 51: the reply is added to
\* memory, the tool branch is taken and tool_use is triggered.
UseToolBegin ==
    /\ pc = "got_reply"
    /\ ShouldUseTool(reply, running)
    /\ memory' = AddReply(memory, reply)
    /\ events' = Append(events, Event("tool_use", reply))
    /\ pc' = "use_tool"
    /\ UNCHANGED << running, stopAt, cancelling, memAtStop, reply, results,
                    retval, pass, packets, nextId, uses,
                    contexts, active >>
    /\ UNCHANGED << config, aux >>

\* _run_model, lines 35-39 and 42-47: the reply is added to memory, the loop
\* breaks, model_reply is triggered and the reply is returned.
RunModelReturn ==
    /\ pc = "got_reply"
    /\ ~ShouldUseTool(reply, running)
    /\ memory' = AddReply(memory, reply)
    /\ events' = IF ShouldTriggerReply(reply)
                 THEN Append(events, Event("model_reply", reply))
                 ELSE events
    /\ retval' = reply
    /\ running' = FALSE
    /\ pc' = "ended"
    /\ UNCHANGED << stopAt, cancelling, memAtStop, reply, results, pass,
                    packets, nextId, uses,
                    contexts, active >>
    /\ UNCHANGED << config, aux >>

\* ----------------------------------------------------- ToolsManager.use
\* Mutant: "except Exception: pass", the message is dropped.
ExceptionResult_Dropped(message) == NoneVal

\* ToolsManager.use, lines 26-27: the message of an exception that is not a
\* cancellation is the result.
ExceptionResult(message) == StrVal(message)

\* Mutant: the cancellation caught by "except Exception" (lines 26-27).
CancelledResult_AsError == StrVal(<<"cancelled">>)

\* ToolsManager.use, lines 19 and 24-25: a cancelled tool leaves the result
\* None.
CancelledResult == NoneVal

\* The last ToolsManager.use call ends with what it returns.
EndUse(outcome, ret) ==
    [uses EXCEPT ![Len(uses)] =
        [@ EXCEPT !.outcome = outcome, !.ret = ret]]

\* _use_tool, line 52 and ToolsManager.use, lines 19-31, for a tool name
\* that is not registered: _tool_from_name raises ToolError, its message is
\* the result.
UseLookupFails ==
    /\ pc = "use_tool"
    /\ ToolFromName(reply.tool) = 0
    /\ LET ret == WrapResult(0, ExceptionResult(<<"Tool not found", reply.tool>>), nextId)
       IN  /\ results' = ret
           /\ uses' = Append(uses,
                        UseRecord(reply, 0, NoVerdict, 0, "lookup_error", ret))
           /\ nextId' = IF IsToolResult(ret) THEN nextId + 1 ELSE nextId
    /\ pc' = "tool_done"
    /\ UNCHANGED << running, stopAt, cancelling, memory, memAtStop, events,
                    reply, retval, pass, packets,
                    contexts, active >>
    /\ UNCHANGED << config, aux >>

\* ToolsManager.use, lines 19-31 and Tool.use, lines 64-67, for arguments
\* that _validate_params rejects: the ToolError's message is the result and
\* _run is not called.
UseValidationFails ==
    /\ pc = "use_tool"
    /\ ToolFromName(reply.tool) # 0
    /\ LET idx == ToolFromName(reply.tool)
           v == ValidateParams(Tools[idx], reply.args)
           ret == WrapResult(idx, ExceptionResult(v.error), nextId)
       IN  /\ ~v.ok
           /\ results' = ret
           /\ uses' = Append(uses, UseRecord(reply, idx, v, 0, "invalid", ret))
           /\ nextId' = IF IsToolResult(ret) THEN nextId + 1 ELSE nextId
    /\ pc' = "tool_done"
    /\ UNCHANGED << running, stopAt, cancelling, memory, memAtStop, events,
                    reply, retval, pass, packets,
                    contexts, active >>
    /\ UNCHANGED << config, aux >>

\* ToolsManager.use, lines 19-23 and Tool.use, lines 64-68, for arguments
\* that _validate_params accepts: the tool body _run starts and the loop is
\* suspended on it.
UseBodyStarts ==
    /\ pc = "use_tool"
    /\ ToolFromName(reply.tool) # 0
    /\ LET idx == ToolFromName(reply.tool)
           v == ValidateParams(Tools[idx], reply.args)
       IN  /\ v.ok
           /\ uses' = Append(uses, UseRecord(reply, idx, v, 1, "running", NoneVal))
    /\ pc' = NextAfterToolStart
    /\ UNCHANGED << running, stopAt, cancelling, memory, memAtStop, events,
                    reply, results, retval, pass, packets, nextId,
                    contexts >>
    /\ active' = [active EXCEPT !.tool = @ + 1]
    /\ UNCHANGED << config, aux >>

\* The tool body ends with result (a text it returned or the message of
\* the exception it raised, lines 26-27); lines 29-31 wrap it.
BodyEnds(outcome, result) ==
    /\ pc = "tool_running"
    /\ ~cancelling
    /\ LET ret == WrapResult(uses[Len(uses)].toolIdx, result, nextId)
       IN  /\ results' = ret
           /\ uses' = EndUse(outcome, ret)
           /\ nextId' = IF IsToolResult(ret) THEN nextId + 1 ELSE nextId
    /\ pc' = "tool_done"
    /\ UNCHANGED << running, stopAt, cancelling, memory, memAtStop, events,
                    reply, retval, pass, packets,
                    contexts >>
    /\ active' = [active EXCEPT !.tool = @ - 1]
    /\ UNCHANGED << config, aux >>

\* The tool body returns a text.
ToolBodyReturns == \E t \in BodyTexts : BodyEnds("returned", StrVal(t))

\* The tool body raises an exception: its message is the result.
ToolBodyRaises == \E e \in BodyErrors : BodyEnds("raised", ExceptionResult(e))

\* The tool body is cancelled: ToolsManager.use, lines 24-25 and 29-31,
\* leaves the result None.
ToolBodyCancelled ==
    /\ pc = "tool_running"
    /\ cancelling
    /\ LET ret == WrapResult(uses[Len(uses)].toolIdx, CancelledResult, nextId)
       IN  /\ results' = ret
           /\ uses' = EndUse("cancelled", ret)
           /\ nextId' = IF IsToolResult(ret) THEN nextId + 1 ELSE nextId
    /\ cancelling' = FALSE
    /\ pc' = "tool_done"
    /\ UNCHANGED << running, stopAt, memory, memAtStop, events, reply,
                    retval, pass, packets,
                    contexts >>
    /\ active' = [active EXCEPT !.tool = @ - 1]
    /\ UNCHANGED << config, aux >>

\* _use_tool, lines 53-57 and _run_model, line 41: a ToolResult is reported
\* with tool_result and added to memory; the loop continues.
UseToolEnd ==
    /\ pc = "tool_done"
    /\ IF ShouldAddResult(results)
       THEN /\ events' = Append(events, Event("tool_result", results))
            /\ memory' = Append(memory, results)
       ELSE UNCHANGED << events, memory >>
    /\ pc' = "generate"
    /\ UNCHANGED << running, stopAt, cancelling, memAtStop, reply, results,
                    retval, pass, packets, nextId, uses,
                    contexts, active >>
    /\ UNCHANGED << config, aux >>

Next ==
    \/ Run
    \/ RunModelBegin
    \/ GenerateReplyBegin
    \/ GenerateReplySkipped
    \/ StreamPacket
    \/ StreamDoneReply
    \/ StreamDoneToolUsage
    \/ StreamError
    \/ RunModelRaises
    \/ RunFails
    \/ Stop
    \/ StreamCancelled
    \/ UseToolBegin
    \/ RunModelReturn
    \/ UseLookupFails
    \/ UseValidationFails
    \/ UseBodyStarts
    \/ ToolBodyReturns
    \/ ToolBodyRaises
    \/ ToolBodyCancelled
    \/ UseToolEnd

Spec == Init /\ [][Next]_vars

\* --------------------------------------------------------------- history
EventsOf(type) == { i \in DOMAIN events : events[i].type = type }

EventsFor(type, m) ==
    { i \in DOMAIN events : events[i].type = type /\ events[i].msg = m }

EventsIn(type, p) ==
    { i \in DOMAIN events : events[i].type = type /\ events[i].pass = p }

UsesOf(m) == { k \in DOMAIN uses : uses[k].usage = m }

Interrupted == stopAt # "none"

IsPrefix(a, b) ==
    /\ Len(a) <= Len(b)
    /\ \A i \in 1..Len(a) : a[i] = b[i]

\* The loop has not yet decided (line 39) what to do with the reply m.
Undecided(m) == pc = "got_reply" /\ reply = m

\* The declared and the required parameter names of a tool, as sets.
Declared(tool) == { tool.parameters[i].name : i \in 1..Len(tool.parameters) }

Required(tool) ==
    { tool.parameters[i].name :
        i \in { j \in 1..Len(tool.parameters) : ~tool.parameters[j].optional } }

\* ----------------------------------------------------------------- claims
\* C1: in an uninterrupted run, a generation pass whose final message is a
\* ToolUsage triggers exactly one tool_use event for that message (once the
\* loop has looked at it) and no model_reply event before the next pass.
C1_ToolUseOncePerToolPass ==
    ~Interrupted =>
        \A i \in EventsOf("model_end") :
            IsToolUsage(events[i].msg) =>
                /\ Cardinality(EventsFor("tool_use", events[i].msg))
                     = (IF Undecided(events[i].msg) THEN 0 ELSE 1)
                /\ EventsIn("model_reply", events[i].pass) = {}

\* C1 witness: an uninterrupted run used a tool in its first pass and ended
\* with a reply in its second.
C1_Witness ==
    /\ ~Interrupted
    /\ pc = "ended"
    /\ pass = 2
    /\ EventsIn("tool_use", 1) # {}
    /\ EventsIn("model_reply", 2) # {}

\* C2: a pass that ends with a terminal ModelMessage with finish_reason DONE
\* is the last pass; it triggers no tool_use, exactly one model_reply, which
\* carries that message, and run() returns that message.
C2_ReplyOncePerFinalPass ==
    \A i \in EventsOf("model_end") :
        (events[i].msg.type = "ModelMessage" /\ events[i].msg.finish = "DONE") =>
            /\ pass = events[i].pass
            /\ pc \in {"got_reply", "ended"}
            /\ EventsIn("tool_use", events[i].pass) = {}
            /\ EventsOf("model_reply") = EventsFor("model_reply", events[i].msg)
            /\ Cardinality(EventsOf("model_reply"))
                 = (IF pc = "ended" THEN 1 ELSE 0)
            /\ pc = "ended" => retval = events[i].msg

\* C2 witness: a run ended with the DONE message of its second pass.
C2_Witness ==
    /\ pc = "ended"
    /\ pass = 2
    /\ retval.type = "ModelMessage"
    /\ retval.finish = "DONE"
    /\ EventsFor("model_reply", retval) # {}

\* C3: the payload of model_reply is never a ToolUsage, and an interrupted
\* run triggers no model_reply and returns no reply.
C3_ReplyNeverToolUsage ==
    /\ \A j \in EventsOf("model_reply") : ~IsToolUsage(events[j].msg)
    /\ Interrupted =>
          /\ EventsOf("model_reply") = {}
          /\ pc = "ended" => retval = NoneVal

\* C4: when the run is cancelled while the tool body executes,
\* ToolsManager.use returns None, exactly one model_interrupt is triggered,
\* no tool_result is triggered for that usage, no ToolResult is added to
\* memory and the entries added before the cancellation are unchanged.
C4_CancelledToolLeavesNoResult ==
    \A k \in DOMAIN uses :
        uses[k].outcome = "cancelled" =>
            /\ uses[k].ret = NoneVal
            /\ Cardinality(EventsOf("model_interrupt")) = 1
            /\ EventsIn("tool_result", uses[k].pass) = {}
            /\ IsPrefix(memAtStop, memory)
            /\ \A i \in DOMAIN memory :
                  i > Len(memAtStop) => ~IsToolResult(memory[i])

\* C4 witness: a run whose tool body was cancelled has returned.
C4_Witness ==
    /\ pc = "ended"
    /\ \E k \in DOMAIN uses : uses[k].outcome = "cancelled" /\ uses[k].bodyRuns = 1

C6_StreamCancelRunsNoTool ==
    stopAt = "streaming" =>
        /\ Cardinality(EventsOf("model_interrupt")) = 1
        /\ IsPrefix(memAtStop, memory)
        /\ \A k \in DOMAIN uses : uses[k].pass < pass
        /\ \A j \in EventsOf("tool_use") :
              \A i \in EventsOf("model_interrupt") : j < i

\* C6 witness: the cancelled streaming call returned a partial ToolUsage,
\* which was added to memory, and the run returned.
C6_Witness ==
    /\ stopAt = "streaming"
    /\ pc = "ended"
    /\ IsToolUsage(reply)
    /\ Len(memory) = Len(memAtStop) + 1

\* C7: ToolsManager.use is called at most once per ToolUsage, and exactly
\* once in an uninterrupted run; the tool body starts at most once per
\* call; the failure of a registered tool (rejected arguments, or an
\* exception of the body) is triggered as tool_result and added to memory
\* exactly once, and no failure more than once.
C7_ToolUsageExecutedOnce ==
    /\ \A k1, k2 \in DOMAIN uses :
          uses[k1].usage.id = uses[k2].usage.id => k1 = k2
    /\ \A k \in DOMAIN uses : uses[k].bodyRuns <= 1
    /\ \A i \in EventsOf("model_end") :
          ( /\ IsToolUsage(events[i].msg)
            /\ ~Interrupted
            /\ ~(pc \in {"got_reply", "use_tool"} /\ reply = events[i].msg) )
          => Cardinality(UsesOf(events[i].msg)) = 1
    /\ \A k \in DOMAIN uses :
          LET n == Cardinality({ i \in DOMAIN memory : memory[i] = uses[k].ret })
              e == Cardinality(EventsFor("tool_result", uses[k].ret))
          IN  /\ n <= 1 /\ e <= 1
              /\ ( /\ uses[k].outcome \in {"invalid", "raised"}
                   /\ ~(pc = "tool_done" /\ k = Len(uses)) )
                 => (n = 1 /\ e = 1)

\* C7 witness: a tool body raised and the run went on to its reply.
C7_Witness ==
    /\ pc = "ended"
    /\ ~Interrupted
    /\ \E k \in DOMAIN uses :
          /\ uses[k].outcome = "raised"
          /\ \E i \in DOMAIN memory : memory[i] = uses[k].ret

\* C8: when the requested tool is not registered, a tool_result event is
\* triggered and a ToolResult carrying the error text is added to memory
\* before the loop goes on to the next generation pass.
C8_UnknownToolBecomesResult ==
    \A k \in DOMAIN uses :
        ( /\ uses[k].outcome = "lookup_error"
          /\ ~(pc = "tool_done" /\ k = Len(uses)) )
        => /\ EventsIn("tool_result", uses[k].pass) # {}
           /\ \E i \in DOMAIN memory :
                 /\ IsToolResult(memory[i])
                 /\ memory[i].content = <<"Tool not found", uses[k].usage.tool>>

\* C9: ToolsManager.use returns None or a ToolResult tagged with the tool's
\* name, never another kind of value.
C9_UseReturnsNoneOrToolResult ==
    \A k \in DOMAIN uses :
        uses[k].outcome # "running" =>
            \/ uses[k].ret = NoneVal
            \/ /\ IsToolResult(uses[k].ret)
               /\ uses[k].ret.name = uses[k].usage.tool

\* C10: Tool.use accepts the supplied argument names if and only if each is
\* a declared parameter and each non-optional parameter is supplied;
\* otherwise the ToolError names an undeclared supplied name or a missing
\* required name, and the tool body is not started.
C10_ValidationAcceptsExactly ==
    \A k \in DOMAIN uses :
        uses[k].toolIdx # 0 =>
            LET tool == Tools[uses[k].toolIdx]
                given == SeqToSet(uses[k].usage.args)
                v == uses[k].valid
            IN  /\ v.ok <=> (given \subseteq Declared(tool)
                             /\ Required(tool) \subseteq given)
                /\ v.ok => uses[k].bodyRuns = 1
                /\ ~v.ok =>
                      /\ uses[k].bodyRuns = 0
                      /\ Len(v.error) = 2
                      /\ \/ /\ v.error[1] = "Invalid argument"
                            /\ v.error[2] \in given \ Declared(tool)
                         \/ /\ v.error[1] = "Missing required argument"
                            /\ v.error[2] \in Required(tool) \ given

\* C10 witness: the tool with a required "city" and an optional "unit" was
\* called with "city" and an undeclared "bogus": the error names "bogus" and
\* the body was not started.
C10_Witness ==
    \E k \in DOMAIN uses :
        /\ uses[k].usage.tool = "weather"
        /\ uses[k].usage.args = <<"city", "bogus">>
        /\ ~uses[k].valid.ok
        /\ uses[k].valid.error = <<"Invalid argument", "bogus">>
        /\ uses[k].bodyRuns = 0

\* C11: when the argument validation or the body of a registered tool raises
\* an exception that is not a cancellation, ToolsManager.use returns a
\* ToolResult with the exception's message as content and the tool's name;
\* the loop triggers tool_result for it and goes on with a new generation
\* pass.
C11_ToolFailureBecomesResult ==
    \A k \in DOMAIN uses :
        uses[k].outcome \in {"invalid", "raised"} =>
            /\ IsToolResult(uses[k].ret)
            /\ uses[k].ret.name = Tools[uses[k].toolIdx].name
            /\ uses[k].outcome = "invalid" =>
                  uses[k].ret.content = uses[k].valid.error
            /\ uses[k].outcome = "raised" => uses[k].ret.content \in BodyErrors
            /\ ~(pc = "tool_done" /\ k = Len(uses)) =>
                  /\ EventsFor("tool_result", uses[k].ret) # {}
                  /\ \/ pc = "generate" /\ running /\ pass < MaxPasses
                     \/ pass > uses[k].pass

\* C11 witness: a tool body raised, and the next generation pass has begun.
C11_Witness ==
    \E k \in DOMAIN uses :
        /\ uses[k].outcome = "raised"
        /\ pass > uses[k].pass
        /\ pc = "streaming"

\* C12: a failure of the streaming client leaves _run_model without adding
\* to memory or triggering an event; run() then triggers model_error once,
\* as the last event, and ends with no reply; no model_reply is triggered.
C12_ClientFailureEndsRun ==
    /\ [](EventsOf("model_error") # {} =>
            /\ pc = "ended"
            /\ retval = NoneVal
            /\ EventsOf("model_reply") = {}
            /\ EventsOf("model_error") = {Len(events)})
    /\ [][pc = "gen_raised" =>
            /\ pc' = "run_failed"
            /\ memory' = memory
            /\ events' = events]_vars
    /\ [][pc = "run_failed" =>
            /\ pc' = "ended"
            /\ memory' = memory
            /\ Len(events') = Len(events) + 1
            /\ events'[Len(events')].type = "model_error"]_vars

\* C12 witness: the client failed in the second pass, after a tool was used;
\* the run ended and the memory holds the usage and its result.
C12_Witness ==
    /\ pc = "ended"
    /\ EventsOf("model_error") # {}
    /\ pass = 2
    /\ \E i \in DOMAIN memory : IsToolResult(memory[i])

\* The shape of an event sequence, read by an acceptor: S before model_start,
\* G while a pass generates, E after model_end, U after tool_use, R after
\* model_reply, X once the sequence has left the shape.
ShapeStep(q, type) ==
    CASE q = "S" /\ type = "model_start" -> "G"
      [] q = "G" /\ type = "model_generation" -> "G"
      [] q = "G" /\ type = "model_end" -> "E"
      [] q = "E" /\ type = "tool_use" -> "U"
      [] q = "E" /\ type = "model_reply" -> "R"
      [] q = "U" /\ type = "tool_result" -> "G"
      [] OTHER -> "X"

RECURSIVE ShapeAfter(_)
ShapeAfter(n) ==
    IF n = 0 THEN "S" ELSE ShapeStep(ShapeAfter(n - 1), events[n].type)

\* The run was not interrupted and the streaming client did not fail.
CleanRun == ~Interrupted /\ pc \notin {"gen_raised", "run_failed"}
               /\ EventsOf("model_error") = {}

\* C13: in every uninterrupted, error-free run the events have the shape
\* model_start, then (model_generation*, model_end, tool_use, tool_result)
\* for each tool-using pass, then (model_generation*, model_end, model_reply)
\* for the last pass, model_reply being the last event.
C13_EventShape ==
    CleanRun =>
        /\ ShapeAfter(Len(events)) # "X"
        /\ pc = "ended" => ShapeAfter(Len(events)) = "R"

\* The same shape, for the runs in which every requested tool is registered.
C13_EventShapeOfKnownTools ==
    (CleanRun /\ \A k \in DOMAIN uses : uses[k].outcome # "lookup_error") =>
        /\ ShapeAfter(Len(events)) # "X"
        /\ pc = "ended" => ShapeAfter(Len(events)) = "R"

\* C14 as stated: the final message of a pass is in memory when its model_end
\* event is emitted.
C14_AppendedBeforeModelEnd ==
    \A i \in EventsOf("model_end") :
        \E j \in DOMAIN memory : memory[j] = events[i].msg

\* C14, amended: model_end for the final message of a pass is emitted before
\* the message is appended to memory; the message is not in memory until
\* _generate_reply has returned, and is in memory exactly once from then on.
C14_ModelEndBeforeAppend ==
    \A i \in EventsOf("model_end") :
        LET m == events[i].msg
            at == { j \in DOMAIN memory : memory[j] = m }
        IN  IF Undecided(m) THEN at = {} ELSE Cardinality(at) = 1

\* C14 witness: model_end was emitted for a tool request that is not yet in
\* memory.
C14_Witness ==
    /\ pc = "got_reply"
    /\ IsToolUsage(reply)
    /\ EventsFor("model_end", reply) # {}
    /\ \A j \in DOMAIN memory : memory[j] # reply

\* A sequence holds b right after a.
Follows(seq, a, b) ==
    \E j \in DOMAIN seq : j > 1 /\ seq[j - 1] = a /\ seq[j] = b

\* C15: whenever a tool execution returns a ToolResult, tool_result is
\* triggered, the result is appended to memory, and the next generation pass
\* is invoked with a context holding the result after the ToolUsage it
\* answers; no later pass starts on a context that lacks the result.
C15_ToolResultReachesNextPass ==
    \A k \in DOMAIN uses :
        (IsToolResult(uses[k].ret) /\ ~(pc = "tool_done" /\ k = Len(uses))) =>
            /\ EventsFor("tool_result", uses[k].ret) # {}
            /\ Follows(memory, uses[k].usage, uses[k].ret)
            /\ \/ pc = "generate" /\ running /\ pass < MaxPasses
               \/ pass > uses[k].pass
            /\ \A p \in DOMAIN contexts :
                  p > uses[k].pass =>
                      Follows(contexts[p], uses[k].usage, uses[k].ret)

\* C15 witness: a tool body returned a text and the next pass is streaming
\* on a context that ends with the result.
C15_Witness ==
    \E k \in DOMAIN uses :
        /\ uses[k].outcome = "returned"
        /\ pc = "streaming"
        /\ pass = uses[k].pass + 1
        /\ contexts[pass][Len(contexts[pass])] = uses[k].ret

\* The message run() was called with.
IsNewMessage(m) == m.type = "UserMessage" /\ m.content = <<"question">>

\* C16: the user message is appended to memory before any event is
\* triggered and before the first generation pass: the context given to
\* model_start and to the first streaming call ends with that message.
C16_UserMessageFirst ==
    /\ events # << >> =>
          /\ events[1].type = "model_start"
          /\ events[1].ctx # << >>
          /\ IsNewMessage(events[1].ctx[Len(events[1].ctx)])
          /\ IsPrefix(events[1].ctx, memory)
    /\ contexts # << >> =>
          /\ contexts[1] # << >>
          /\ IsNewMessage(contexts[1][Len(contexts[1])])
          /\ events # << >> /\ contexts[1] = events[1].ctx

\* C16 witness: the first pass is streaming on an earlier conversation
\* followed by the new message.
C16_Witness ==
    /\ pc = "streaming"
    /\ pass = 1
    /\ Len(contexts[1]) = 3
    /\ events[1].type = "model_start"

\* C17: the memory is append-only under the loop: no step removes, reorders
\* or rewrites an entry, after an interruption or a client failure included.
C17_MemoryAppendOnly == [][IsPrefix(memory, memory')]_vars

\* C17 witness: the run was interrupted and the memory has grown since,
\* keeping what it held at the interruption.
C17_Witness ==
    /\ Interrupted
    /\ pc = "ended"
    /\ IsPrefix(memAtStop, memory)
    /\ Len(memory) > Len(memAtStop)
    /\ Len(memAtStop) > 1

\* C18: at every moment at most one generation pass and at most one tool
\* execution is in progress, and never both at the same time.
C18_SingleFlight ==
    /\ active.gen \in {0, 1}
    /\ active.tool \in {0, 1}
    /\ active.gen + active.tool <= 1
    /\ active.gen = 1 <=> pc = "streaming"
    /\ active.tool = 1 <=> pc = "tool_running"

\* C18 witness: a tool body is running after the first pass has returned.
C18_Witness ==
    /\ pc = "tool_running"
    /\ pass = 1
    /\ active = [gen |-> 0, tool |-> 1]

\* C19: a ToolUsage returned by a generation pass after the loop was
\* interrupted gets no tool_use event, is not executed, and no tool_result
\* is triggered or appended for it.
C19_InterruptedToolUsageNotUsed ==
    (Interrupted /\ IsToolUsage(reply) /\ reply.finish = "CANCELLED") =>
        /\ EventsFor("tool_use", reply) = {}
        /\ UsesOf(reply) = {}
        /\ EventsIn("tool_result", pass) = {}
        /\ \A j \in DOMAIN memory :
              j > Len(memAtStop) => ~IsToolResult(memory[j])

\* C19 witness: the interrupted pass returned a request for a registered
\* tool; the run has ended with the request as the last memory entry.
C19_Witness ==
    /\ Interrupted
    /\ pc = "ended"
    /\ IsToolUsage(reply)
    /\ reply.tool = "weather"
    /\ memory[Len(memory)] = reply
    /\ uses = << >>

\* The loop under fair scheduling: the event loop runs the one task of the
\* run whenever it can take a step.
FairSpec == Spec /\ WF_vars(Next)

\* C20: the loop terminates. run() returns as soon as a pass ends with a
\* reply that is not a tool request, or after a cancellation; and, the model
\* requesting tools only finitely often, every run eventually ends, whatever
\* the outcome of each tool execution.
C20_RunTerminates ==
    /\ <>(pc = "ended")
    /\ [][(pc = "got_reply" /\ (~IsToolUsage(reply) \/ ~running)) =>
              pc' = "ended"]_vars
    /\ [][(pc = "run_failed") => pc' = "ended"]_vars

\* C20 witness: a run that requested an unknown tool has ended.
C20_Witness ==
    /\ pc = "ended"
    /\ ~Interrupted
    /\ \E k \in DOMAIN uses : uses[k].outcome = "lookup_error"
    /\ retval.type = "ModelMessage"

\* =========================================================================
\* EventsManager (chatgpt/events.py): one manager with its observers, and
\* the triggers a run makes on it.
\* =========================================================================

\* The loop takes no part: its variables rest.
LoopUnused ==
    /\ pc = "unused"
    /\ running = FALSE
    /\ stopAt = "none"
    /\ cancelling = FALSE
    /\ memory = << >>
    /\ memAtStop = << >>
    /\ events = << >>
    /\ reply = NoneVal
    /\ results = NoneVal
    /\ retval = NoneVal
    /\ pass = 0
    /\ packets = 0
    /\ nextId = 1
    /\ uses = << >>
    /\ contexts = << >>
    /\ active = [gen |-> 0, tool |-> 0]
    /\ config = CallerConfig

\* The events of EventsManager (its trigger_ methods, lines 20-57), in the
\* order the triggers of one run are taken in.
EventOrder ==
    << "model_start", "model_generation", "model_end", "tool_use",
       "tool_result", "model_reply", "model_error", "model_interrupt" >>

EventNames == { EventOrder[i] : i \in DOMAIN EventOrder }

EventIndex(e) == CHOOSE i \in DOMAIN EventOrder : EventOrder[i] = e

\* An observer: the event classes it derives from, and whether its callbacks
\* are coroutine functions.
Handler(name, caps, isAsync) == [name |-> name, caps |-> caps, async |-> isAsync]

MetricsHandler == Handler("MetricsHandler", {"model_start", "model_end"}, TRUE)

ConsoleHandler == Handler("ConsoleHandler", EventNames \ {"model_end"}, TRUE)

\* An observer implementing only on_tool_use, with a plain function.
ToolUseObserver == Handler("ToolUseObserver", {"tool_use"}, FALSE)

\* An object in the observer list that derives from no event class.
PlainObserver == Handler("PlainObserver", {}, FALSE)

HandlerKinds == {MetricsHandler, ConsoleHandler, ToolUseObserver, PlainObserver}

HandlerLists == UNION { [1..n -> HandlerKinds] : n \in 0..MaxHandlers }

\* Mutant: isinstance tested against the base class ModelEvent.
IsInstance_OfBase(h, e) == h.caps # {}

\* isinstance(handler, event), lines 63 and 75.
IsInstance(h, e) == e \in h.caps

\* Mutant: lines 63-64 left out.
SkipHandler_Never(h, e) == FALSE

\* _trigger, lines 63-64: a handler that is no instance of the event is
\* passed over.
SkipHandler(h, e) == ~IsInstance(h, e)

\* ModelEvent.trigger, lines 75-83: TypeError for a handler that is no
\* instance of the event, the handler's callback otherwise.
EventTrigger(h, e) == IF ~IsInstance(h, e) THEN "TypeError" ELSE "callback"

\* Mutant: line 82 without await, the coroutine is left running.
AfterAsyncStart_NotAwaited == "dispatch"

\* ModelEvent.trigger, line 82, and _trigger, line 66: the callback's
\* coroutine is awaited; where the dispatch is while it runs.
AfterAsyncStart == "in_callback"

\* Mutant: _trigger catching the callback's exception and going on.
AfterCallbackRaises_Swallowed == "dispatch"

\* _trigger, lines 62-66, and ModelEvent.trigger, lines 80-83, have no
\* try: the exception of a callback leaves the loop over the handlers and
\* the trigger.
AfterCallbackRaises == "failed"

\* One entry of the observers' log: in trigger t, the callback of the h-th
\* handler for event started, returned or raised.
LogEntry(what) ==
    [t |-> Len(em.fired), h |-> em.idx, event |-> em.event, what |-> what]

EventsInit ==
    /\ em \in { [phase |-> "idle", handlers |-> hs, event |-> "none",
                 idx |-> 0, fired |-> << >>, log |-> << >>,
                 inflight |-> {}, error |-> "none"] : hs \in HandlerLists }
    /\ ser = Unused
    /\ mgr = Unused
    /\ LoopUnused
    /\ db = Unused
    /\ ch = Unused
    /\ met = Unused

\* A trigger_ method is called (lines 20-57) and _trigger starts on the
\* first handler. Each event is triggered at most once, in EventOrder.
TriggerBegin ==
    /\ em.phase = "idle"
    /\ \E i \in DOMAIN EventOrder :
          /\ \A j \in DOMAIN em.fired : EventIndex(em.fired[j]) < i
          /\ em' = [em EXCEPT !.phase = "dispatch", !.event = EventOrder[i],
                              !.idx = 1, !.fired = Append(@, EventOrder[i])]
    /\ UNCHANGED << vars, ser, mgr, db, ch, met >>

\* _trigger, lines 62-64: the handler is no instance of the event.
HandlerSkipped ==
    /\ em.phase = "dispatch"
    /\ em.idx <= Len(em.handlers)
    /\ SkipHandler(em.handlers[em.idx], em.event)
    /\ em' = [em EXCEPT !.idx = @ + 1]
    /\ UNCHANGED << vars, ser, mgr, db, ch, met >>

\* _trigger, line 66 and ModelEvent.trigger, lines 75-83: the event is
\* triggered on the handler. A plain function runs to its end at once; a
\* coroutine function is started.
HandlerTriggered ==
    /\ em.phase = "dispatch"
    /\ em.idx <= Len(em.handlers)
    /\ ~SkipHandler(em.handlers[em.idx], em.event)
    /\ IF EventTrigger(em.handlers[em.idx], em.event) = "TypeError"
       THEN em' = [em EXCEPT !.phase = "failed", !.error = "TypeError"]
       ELSE IF em.handlers[em.idx].async
       THEN em' = [em EXCEPT !.phase = AfterAsyncStart,
                             !.inflight = @ \cup {em.idx},
                             !.log = Append(@, LogEntry("start"))]
       ELSE \E end \in {"returned", "raised"} :
               em' = [em EXCEPT
                        !.log = @ \o << LogEntry("start"), LogEntry(end) >>,
                        !.idx = IF end = "returned" THEN @ + 1 ELSE @,
                        !.phase = IF end = "returned" THEN @
                                  ELSE AfterCallbackRaises,
                        !.error = IF end = "returned" THEN @ ELSE "CallbackError"]
    /\ UNCHANGED << vars, ser, mgr, db, ch, met >>

\* The awaited callback returns: _trigger goes on with the next handler.
CallbackReturns ==
    /\ em.phase = "in_callback"
    /\ em' = [em EXCEPT !.phase = "dispatch", !.inflight = {},
                        !.idx = @ + 1,
                        !.log = Append(@, LogEntry("returned"))]
    /\ UNCHANGED << vars, ser, mgr, db, ch, met >>

\* The awaited callback raises: the exception leaves _trigger.
CallbackRaises ==
    /\ em.phase = "in_callback"
    /\ em' = [em EXCEPT !.phase = AfterCallbackRaises, !.inflight = {},
                        !.error = "CallbackError",
                        !.log = Append(@, LogEntry("raised"))]
    /\ UNCHANGED << vars, ser, mgr, db, ch, met >>

\* _trigger, line 62: the handlers are exhausted, the trigger returns.
TriggerEnd ==
    /\ em.phase = "dispatch"
    /\ em.idx > Len(em.handlers)
    /\ em' = [em EXCEPT !.phase = "idle"]
    /\ UNCHANGED << vars, ser, mgr, db, ch, met >>

EventsNext ==
    \/ TriggerBegin
    \/ HandlerSkipped
    \/ HandlerTriggered
    \/ CallbackReturns
    \/ CallbackRaises
    \/ TriggerEnd

EventsSpec == EventsInit /\ [][EventsNext]_<< vars, aux >>

\* The observers' log entries of one kind.
LogOf(what) == { p \in DOMAIN em.log : em.log[p].what = what }

\* The handlers that implement event e, as indices in list order.
Implementing(e) ==
    SelectSeq([i \in 1..Len(em.handlers) |-> i],
              LAMBDA i : e \in em.handlers[i].caps)

\* The handlers whose callback was started in trigger t, in log order.
StartedIn(t) ==
    LET starts == SelectSeq(em.log, LAMBDA x : x.t = t /\ x.what = "start")
    IN  [i \in 1..Len(starts) |-> starts[i].h]

\* Trigger t has returned to its caller.
Returned(t) == t < Len(em.fired) \/ (t = Len(em.fired) /\ em.phase = "idle")

\* C21: an event is delivered only to observers implementing its
\* capability; an observer implementing only on_tool_use gets no call for
\* any other event, whichever events fire.
C21_OnlyImplementingObserversCalled ==
    /\ \A p \in DOMAIN em.log :
          /\ em.log[p].event = em.fired[em.log[p].t]
          /\ em.log[p].event \in em.handlers[em.log[p].h].caps
    /\ \A i \in DOMAIN em.handlers :
          em.handlers[i] = ToolUseObserver =>
              \A p \in DOMAIN em.log :
                  em.log[p].h = i => em.log[p].event = "tool_use"

\* C21 witness: all eight events have fired on a list holding the
\* tool_use-only observer, which was called once.
C21_Witness ==
    /\ em.phase = "idle"
    /\ em.fired = EventOrder
    /\ em.handlers = << ConsoleHandler, ToolUseObserver >>
    /\ Cardinality({ p \in LogOf("start") : em.log[p].h = 2 }) = 1

\* C22: within one trigger the implementing observers are called in list
\* order, each exactly once, and a callback, plain or coroutine, has ended
\* before the next one starts: two callbacks never overlap.
C22_InOrderOnceNoOverlap ==
    /\ Cardinality(em.inflight) <= 1
    /\ \A t \in DOMAIN em.fired :
          /\ IsPrefix(StartedIn(t), Implementing(em.fired[t]))
          /\ (Returned(t) /\ em.error = "none") =>
                StartedIn(t) = Implementing(em.fired[t])
    /\ \A p \in LogOf("start") :
          p < Len(em.log) =>
              /\ em.log[p + 1].what \in {"returned", "raised"}
              /\ em.log[p + 1].h = em.log[p].h
              /\ em.log[p + 1].t = em.log[p].t
    /\ em.inflight # {} =>
          /\ em.log[Len(em.log)].what = "start"
          /\ em.inflight = {em.log[Len(em.log)].h}

\* C22 witness: a trigger has returned after calling a coroutine callback
\* and then a plain one, in list order.
C22_Witness ==
    /\ em.phase = "idle"
    /\ em.error = "none"
    /\ em.handlers = << ConsoleHandler, ToolUseObserver >>
    /\ em.fired # << >>
    /\ em.fired[Len(em.fired)] = "tool_use"
    /\ StartedIn(Len(em.fired)) = << 1, 2 >>

\* C23: an observer that does not implement the event is passed over: it
\* never produces an error, and the implementing observers after it in the
\* list are still called.
C23_NonImplementingSkipped ==
    /\ em.error # "TypeError"
    /\ \A t \in DOMAIN em.fired :
          (Returned(t) /\ em.error = "none") =>
              \A i \in DOMAIN em.handlers :
                  em.fired[t] \in em.handlers[i].caps =>
                      \E p \in LogOf("returned") :
                          em.log[p].t = t /\ em.log[p].h = i

\* C23 witness: model_end was triggered on a list whose first observer does
\* not implement it; the second was called and the trigger returned.
C23_Witness ==
    /\ em.phase = "idle"
    /\ em.error = "none"
    /\ em.handlers = << ToolUseObserver, MetricsHandler >>
    /\ em.fired = << "model_end" >>
    /\ StartedIn(1) = << 2 >>

\* =========================================================================
\* Serializable and the classes built on it (chatgpt/core.py): one object
\* is constructed, assigned to, serialized and deserialized.
\* =========================================================================

\* A Python value: k is its kind. A "str" is a text that is no JSON
\* document, known by a token; a "jstr" is a str whose text is the JSON
\* document doc; an "obj" is an instance of class cls with its attributes;
\* an "err" is an exception raised instead of a value.
PyNone == [k |-> "none"]
PyInt(n) == [k |-> "int", n |-> n]
PyStr(t) == [k |-> "str", s |-> t]
PyJsonStr(doc) == [k |-> "jstr", doc |-> doc]
PyList(s) == [k |-> "list", items |-> s]
PyDict(f) == [k |-> "dict", map |-> f]
PyObj(cls, fields) == [k |-> "obj", cls |-> cls, attrs |-> fields]
PyErr(e) == [k |-> "err", e |-> e]

IsErr(x) == x.k = "err"

\* The kinds Serializable calls plain: what _serialize_value and
\* _deserialize_value return as it is.
IsScalar(x) == x.k \in {"none", "int", "str", "jstr"}

NoAttrs == [key \in {} |-> PyNone]

Without(f, keys) == [key \in DOMAIN f \ keys |-> f[key]]

\* The first exception among the values of a mapping, if any.
AnyErr(f) == \E key \in DOMAIN f : IsErr(f[key])
FirstErr(f) == f[CHOOSE key \in DOMAIN f : IsErr(f[key])]

\* json.dumps of a document, and json.loads of a str (JSONDecodeError for a
\* text that is no JSON document).
JsonDumps(doc) == PyJsonStr(doc)
JsonLoads(s) == IF s.k = "jstr" THEN s.doc ELSE PyErr("JSONDecodeError")

\* The subclasses of each class, as __subclasses__() lists them.
Subclasses ==
    [Serializable |-> << "SupportedChatModel", "ModelConfig", "Message" >>,
     SupportedChatModel |-> << >>,
     ModelConfig |-> << >>,
     Message |-> << "UserMessage", "SystemMessage", "ToolResult",
                    "ModelMessage" >>,
     UserMessage |-> << >>,
     SystemMessage |-> << "SummaryMessage" >>,
     ToolResult |-> << >>,
     ModelMessage |-> << "ToolUsage" >>,
     ToolUsage |-> << >>,
     SummaryMessage |-> << >>]

\* Serializable._get_subclass, lines 95-109: depth-first search for the
\* class of that name; "None" when there is none.
RECURSIVE GetSubclassFrom(_, _, _)
GetSubclassFrom(base, name, i) ==
    IF i > Len(Subclasses[base]) THEN "None"
    ELSE LET sub == Subclasses[base][i]
         IN  IF sub = name THEN sub
             ELSE LET deeper == GetSubclassFrom(sub, name, 1)
                  IN  IF deeper # "None" THEN deeper
                      ELSE GetSubclassFrom(base, name, i + 1)

GetSubclass(base, name) == GetSubclassFrom(base, name, 1)

MessageClasses ==
    {"UserMessage", "SystemMessage", "ToolResult", "ModelMessage",
     "ToolUsage", "SummaryMessage"}

\* The characters of the texts used as names: how many are alphanumeric,
\* underscores, and anything else. "x*64" stands for 64 letters.
TextChars(t) ==
    CASE t = "" -> [alnum |-> 0, under |-> 0, other |-> 0]
      [] t = "a" -> [alnum |-> 1, under |-> 0, other |-> 0]
      [] t = "tool_1" -> [alnum |-> 5, under |-> 1, other |-> 0]
      [] t = "a b" -> [alnum |-> 2, under |-> 0, other |-> 1]
      [] t = "a-b" -> [alnum |-> 2, under |-> 0, other |-> 1]
      [] t = "_" -> [alnum |-> 0, under |-> 1, other |-> 0]
      [] t = "__" -> [alnum |-> 0, under |-> 2, other |-> 0]
      [] t = "x*64" -> [alnum |-> 64, under |-> 0, other |-> 0]
      [] t = "x*65" -> [alnum |-> 65, under |-> 0, other |-> 0]
      [] t = "x*64_" -> [alnum |-> 64, under |-> 1, other |-> 0]
      [] t = "x*63_" -> [alnum |-> 63, under |-> 1, other |-> 0]
      [] t = " " -> [alnum |-> 0, under |-> 0, other |-> 1]

TextLen(t) == TextChars(t).alnum + TextChars(t).under + TextChars(t).other

\* name.replace("_", ""): the text without its underscores.
WithoutUnderscores(chars) == [chars EXCEPT !.under = 0]

\* str.isalnum: the text is not empty and all its characters are
\* alphanumeric.
IsAlnum(chars) == chars.alnum > 0 /\ chars.under = 0 /\ chars.other = 0

\* Message.__init__, line 223: "name and not
\* str.isalnum(name.replace("_", ""))". None and the empty text are falsy.
NameRejected(name) ==
    /\ name.k = "str"
    /\ TextLen(name.s) > 0
    /\ ~IsAlnum(WithoutUnderscores(TextChars(name.s)))

\* CHATGPT, lines 357-362. Costs are in 1/10000 USD per 1k tokens.
CHATGPT ==
    PyObj("SupportedChatModel",
          [name |-> PyStr("gpt-3.5-turbo-0613"), size |-> PyInt(4000),
           input_cost |-> PyInt(15), output_cost |-> PyInt(20)])

\* ModelConfig.__init__, lines 155-178: the attributes set before the
\* keyword arguments are applied. Sampling values are in tenths.
ConfigDefaults ==
    [chat_model |-> CHATGPT, tools |-> PyList(<< >>), allowed_tool |-> PyNone,
     prompt |-> PyNone, max_tokens |-> PyNone, streaming |-> PyInt(1),
     stop_sequences |-> PyStr("<|METADATA|>"), temperature |-> PyInt(10),
     presence_penalty |-> PyInt(0), frequency_penalty |-> PyInt(0)]

\* ModelMessage.__init__, lines 296-303. "null" is FinishReason.UNDEFINED.
ModelMessageDefaults ==
    [finish_reason |-> PyStr("null"), prompt_tokens |-> PyInt(0),
     reply_tokens |-> PyInt(0), cost |-> PyInt(0)]

\* The parameters of each __init__ that have no default.
RequiredArgs(cls) ==
    CASE cls \in {"UserMessage", "SystemMessage", "ModelMessage",
                  "SummaryMessage"} -> {"content"}
      [] cls = "ToolResult" -> {"content", "name"}
      [] cls = "ToolUsage" -> {"tool_name", "args_str"}
      [] cls = "SupportedChatModel" -> {"name"}
      [] OTHER -> {}

\* The named parameters of each __init__ chain; the other keyword arguments
\* reach Serializable.__init__.
NamedArgs(cls) ==
    CASE cls \in MessageClasses \ {"ToolUsage"} -> {"content", "name"}
      [] cls = "ToolUsage" -> {"tool_name", "args_str", "content", "name"}
      [] cls = "SupportedChatModel" ->
            {"name", "size", "input_cost", "output_cost"}
      [] OTHER -> {}

ArgOr(kw, key, default) == IF key \in DOMAIN kw THEN kw[key] ELSE default

\* Message.__init__, lines 219-234, then Serializable.__init__, line 28:
\* the name is tested, content, name, metadata and a fresh id are set, and
\* the remaining keyword arguments overwrite them.
MessageInit(content, name, rest) ==
    IF NameRejected(name) THEN PyErr("ValueError")
    ELSE PyDict(rest @@ [content |-> content, name |-> name,
                         metadata |-> PyDict(NoAttrs), id |-> PyStr("uuid4")])

\* SummaryMessage.__init__, lines 341-345, after super().__init__: name is
\* a property whose setter stores nothing (347-354); id and last_message_id
\* are set last.
SummaryInit(attrs) ==
    [id |-> PyStr("SUMMARY"), last_message_id |-> PyNone]
        @@ Without(attrs, {"name"})

\* cls(**kw): the instance, or the exception its construction raises.
Construct(cls, kw) ==
    LET rest == Without(kw, NamedArgs(cls))
        content == ArgOr(kw, "content", PyStr(""))
        name == ArgOr(kw, "name", PyNone)
    IN  IF cls \notin DOMAIN Subclasses \/ cls \in {"Serializable", "Message"}
        THEN PyErr("TypeError")
        ELSE IF ~(RequiredArgs(cls) \subseteq DOMAIN kw)
        THEN PyErr("TypeError")
        ELSE IF cls = "ModelConfig"
        THEN PyObj(cls, kw @@ ConfigDefaults)
        ELSE IF cls = "SupportedChatModel"
        THEN PyObj(cls, rest @@ [name |-> kw.name,
                                 size |-> ArgOr(kw, "size", PyInt(0)),
                                 input_cost |-> ArgOr(kw, "input_cost", PyInt(0)),
                                 output_cost |-> ArgOr(kw, "output_cost", PyInt(0))])
        ELSE LET own == CASE cls = "ModelMessage" -> ModelMessageDefaults
                          [] cls = "ToolUsage" ->
                                [args_str |-> kw.args_str,
                                 tool_name |-> kw.tool_name]
                                    @@ ModelMessageDefaults
                          [] OTHER -> NoAttrs
                 made == MessageInit(content, name, rest @@ own)
             IN  IF IsErr(made) THEN made
                 ELSE IF cls = "SummaryMessage"
                 THEN PyObj(cls, SummaryInit(made.map))
                 ELSE PyObj(cls, made.map)

\* Attribute assignment on an instance. The name of a SummaryMessage is a
\* property whose setter stores nothing.
SetAttrs(obj, sets) ==
    PyObj(obj.cls,
          (IF obj.cls = "SummaryMessage" THEN Without(sets, {"name"}) ELSE sets)
              @@ obj.attrs)

\* Serializable.serialize, lines 30-41, and _serialize_value, lines 62-73.
RECURSIVE Serialize(_), SerializeValue(_)
Serialize(obj) ==
    JsonDumps(PyDict(
        [serialized_type |-> PyStr(obj.cls),
         serialized_params |->
            PyDict([key \in DOMAIN obj.attrs |-> SerializeValue(obj.attrs[key])])]))

SerializeValue(value) ==
    CASE value.k = "obj" -> Serialize(value)
      [] value.k = "list" ->
            PyList([i \in DOMAIN value.items |-> SerializeValue(value.items[i])])
      [] value.k = "dict" ->
            PyDict([key \in DOMAIN value.map |-> SerializeValue(value.map[key])])
      [] OTHER -> value

\* Mutant: an unresolved tag falling back to the class deserialize was
\* called on.
Derivative_FallsBack(cls, tag) ==
    IF GetSubclass("Serializable", tag) = "None" THEN cls
    ELSE GetSubclass("Serializable", tag)

\* Serializable.deserialize, line 51: the class the tag names, among all
\* subclasses of Serializable.
Derivative(cls, tag) == GetSubclass("Serializable", tag)

\* Serializable.deserialize, lines 43-60, and _deserialize_value, lines
\* 75-93: the instance, or the exception raised.
RECURSIVE Deserialize(_, _), DeserializeValue(_)
Deserialize(cls, str) ==
    LET doc == JsonLoads(str)
    IN  IF IsErr(doc) THEN doc
        ELSE IF doc.k # "dict" THEN PyErr("TypeError")
        ELSE IF ~({"serialized_type", "serialized_params"} \subseteq DOMAIN doc.map)
        THEN PyErr("KeyError")
        ELSE LET derivative == Derivative(cls, doc.map.serialized_type.s)
                 given == doc.map.serialized_params.map
                 parameters == [key \in DOMAIN given |-> DeserializeValue(given[key])]
             IN  IF derivative = "None" THEN PyErr("ValueError")
                 ELSE IF AnyErr(parameters) THEN FirstErr(parameters)
                 ELSE Construct(derivative, parameters)

DeserializeValue(value) ==
    CASE value.k = "jstr" ->
            IF value.doc.k = "dict" /\ "serialized_type" \in DOMAIN value.doc.map
            THEN Deserialize("Serializable", value)
            ELSE value
      [] value.k = "list" ->
            LET items == [i \in DOMAIN value.items |-> DeserializeValue(value.items[i])]
            IN  IF AnyErr(items) THEN FirstErr(items) ELSE PyList(items)
      [] value.k = "dict" ->
            LET items == [key \in DOMAIN value.map |-> DeserializeValue(value.map[key])]
            IN  IF AnyErr(items) THEN FirstErr(items) ELSE PyDict(items)
      [] OTHER -> value

\* ---------------------------------------------------------------- inputs
\* The texts tried as names.
NameTexts ==
    {"", "a", "tool_1", "a b", "a-b", "_", "__", "x*64", "x*65", "x*64_",
     "x*63_", " "}

NameInputs == {PyNone} \cup { PyStr(t) : t \in NameTexts }

\* The serialized form of a stored user message.
StoredUserMessage ==
    Serialize(PyObj("UserMessage",
                    [content |-> PyStr("hi"), name |-> PyNone,
                     metadata |-> PyDict(NoAttrs), id |-> PyStr("id0")]))

\* An envelope of the given tag and parameters, as a text.
Envelope(tag, params) ==
    JsonDumps(PyDict([serialized_type |-> PyStr(tag),
                      serialized_params |-> PyDict(params)]))

\* The texts tried as content: a sentence, the texts "123" and {"a": 1},
\* the serialized form of a message, and an envelope of an unknown type.
ContentInputs ==
    { PyStr("hello"),
      PyJsonStr(PyInt(123)),
      PyJsonStr(PyDict([a |-> PyInt(1)])),
      StoredUserMessage,
      Envelope("Ghost", NoAttrs) }

\* The keyword arguments tried with each class.
KwInputs(cls) ==
    CASE cls \in {"UserMessage", "SystemMessage", "ModelMessage",
                  "SummaryMessage"} ->
            { [content |-> c] : c \in ContentInputs }
            \cup { [content |-> PyStr("hello"), name |-> n] : n \in NameInputs }
            \cup { NoAttrs }
      [] cls = "ToolResult" ->
            { [content |-> c, name |-> PyStr("tool_1")] : c \in ContentInputs }
            \cup { [content |-> PyStr("18C"), name |-> n] : n \in NameInputs }
            \cup { [content |-> PyStr("18C")] }
      [] cls = "ToolUsage" ->
            { [tool_name |-> PyStr("weather"),
               args_str |-> PyJsonStr(PyDict([city |-> PyStr("Paris")])),
               name |-> n] : n \in NameInputs }
            \cup { [tool_name |-> PyStr("weather")] }
      [] cls = "ModelConfig" ->
            { NoAttrs }
            \cup { [temperature |-> PyInt(t)] : t \in {0, 20, 21, -1} }
            \cup { [presence_penalty |-> PyInt(q)] : q \in {-20, 20, 21, -21} }
            \cup { [frequency_penalty |-> PyInt(q)] : q \in {-20, 20, 21, -21} }

\* The attribute assignments tried on an instance of each class.
SetInputs(cls) ==
    { NoAttrs }
    \cup (IF cls \in MessageClasses
          THEN { [id |-> PyStr("4711")],
                 [metadata |-> PyDict([topic |-> PyStr("hello")])] }
          ELSE { [max_tokens |-> PyInt(100)] })
    \cup (IF cls \in {"ModelMessage", "ToolUsage"}
          THEN { [finish_reason |-> PyStr("stop"), prompt_tokens |-> PyInt(12),
                  reply_tokens |-> PyInt(5), cost |-> PyInt(3)] }
          ELSE {})
    \cup (IF cls = "SummaryMessage"
          THEN { [last_message_id |-> PyInt(7)] }
          ELSE {})

ConstructedClasses == MessageClasses \cup {"ModelConfig"}

\* The blobs tried that serialize did not produce: (tag, parameters).
ForeignBlobs ==
    { <<"Ghost", [content |-> PyStr("hello")]>>,
      <<"Serializable", NoAttrs>>,
      <<"UserMessage", [content |-> PyStr("hi")]>>,
      <<"UserMessage", NoAttrs>>,
      <<"UserMessage", [content |-> PyStr("hi"), name |-> PyStr("a b")]>>,
      <<"ToolResult", [content |-> PyStr("18C")]>>,
      <<"ToolUsage", [tool_name |-> PyStr("weather")]>>,
      <<"Message", [content |-> PyStr("hi")]>>,
      <<"SupportedChatModel", NoAttrs>>,
      <<"ModelConfig", [temperature |-> PyInt(25)]>>,
      <<"ModelConfig", [chat_model |-> Envelope("Ghost", NoAttrs)]>> }

Trial(phase, cls, kw, sets, via, blob) ==
    [phase |-> phase, cls |-> cls, kw |-> kw, sets |-> sets, via |-> via,
     obj |-> PyNone, blob |-> blob, restored |-> PyNone]

SerialInit ==
    /\ \/ \E cls \in ConstructedClasses :
            \E kw \in KwInputs(cls), sets \in SetInputs(cls) :
                ser = Trial("call", cls, kw, sets, cls, PyNone)
       \/ \E b \in ForeignBlobs, via \in {"Serializable", "UserMessage"} :
            ser = Trial("blob", "None", NoAttrs, NoAttrs, via,
                        Envelope(b[1], b[2]))
    /\ em = Unused
    /\ mgr = Unused
    /\ LoopUnused
    /\ db = Unused
    /\ ch = Unused
    /\ met = Unused

\* cls(**kw) is called: the instance is made, or its __init__ raises.
ConstructObject ==
    /\ ser.phase = "call"
    /\ LET made == Construct(ser.cls, ser.kw)
       IN  ser' = [ser EXCEPT !.obj = made,
                              !.phase = IF IsErr(made) THEN "rejected"
                                        ELSE "constructed"]
    /\ UNCHANGED << vars, em, mgr, db, ch, met >>

\* The caller assigns attributes of the instance.
AssignAttributes ==
    /\ ser.phase = "constructed"
    /\ ser' = [ser EXCEPT !.obj = SetAttrs(@, ser.sets), !.phase = "assigned"]
    /\ UNCHANGED << vars, em, mgr, db, ch, met >>

\* obj.serialize().
SerializeObject ==
    /\ ser.phase = "assigned"
    /\ ser' = [ser EXCEPT !.blob = Serialize(ser.obj), !.phase = "serialized"]
    /\ UNCHANGED << vars, em, mgr, db, ch, met >>

\* via.deserialize(blob): the instance is rebuilt, or an exception raised.
DeserializeBlob ==
    /\ ser.phase \in {"serialized", "blob"}
    /\ LET back == Deserialize(ser.via, ser.blob)
       IN  ser' = [ser EXCEPT !.restored = back,
                              !.phase = IF IsErr(back) THEN "failed"
                                        ELSE "restored"]
    /\ UNCHANGED << vars, em, mgr, db, ch, met >>

SerialNext ==
    \/ ConstructObject
    \/ AssignAttributes
    \/ SerializeObject
    \/ DeserializeBlob

SerialSpec == SerialInit /\ [][SerialNext]_<< vars, aux >>

\* ------------------------------------------------- claims on Serializable
\* A trial that took an object through serialize and deserialize.
RoundTripDone == ser.phase \in {"restored", "failed"} /\ ser.cls # "None"

\* Deserialization has been attempted, on any blob.
DeserializeDone == ser.phase \in {"restored", "failed"}

\* The tag and the parameters of the blob given to deserialize.
BlobTag == ser.blob.doc.map.serialized_type.s
BlobParams == ser.blob.doc.map.serialized_params.map

\* C24: for every message variant and every field assignment,
\* deserialize(serialize(m)) is an object of the same class as m whose
\* fields all equal those of m.
C24_RoundTripFieldEqual ==
    (RoundTripDone /\ ser.cls \in MessageClasses) =>
        /\ ser.phase = "restored"
        /\ ser.restored.cls = ser.obj.cls
        /\ ser.restored.attrs = ser.obj.attrs

\* C25: after serialize then deserialize every plain scalar field holds the
\* value it held before, whatever the text of a string field is.
C25_ScalarsPassThrough ==
    RoundTripDone =>
        /\ ser.phase = "restored"
        /\ \A key \in DOMAIN ser.obj.attrs :
              IsScalar(ser.obj.attrs[key]) =>
                 /\ key \in DOMAIN ser.restored.attrs
                 /\ ser.restored.attrs[key] = ser.obj.attrs[key]

\* The tag names no subclass of Serializable.
UnknownTag(tag) == tag \notin DOMAIN Subclasses \ {"Serializable"}

\* The constructor of the class the tag names refuses the parameters: the
\* class is abstract, a parameter without default is missing, or the name
\* does not pass the test of Message.__init__.
ConstructorRejects(tag, params) ==
    /\ ~UnknownTag(tag)
    /\ \/ tag = "Message"
       \/ ~(RequiredArgs(tag) \subseteq DOMAIN params)
       \/ /\ tag \in MessageClasses
          /\ "name" \in DOMAIN params
          /\ NameRejected(params.name)

\* C26: deserialize raises, and returns no object, when the tag of the blob
\* names no known variant or when the constructor of the named variant
\* rejects the reconstructed parameters.
C26_UnresolvedOrRejectedFails ==
    (/\ DeserializeDone
     /\ UnknownTag(BlobTag) \/ ConstructorRejects(BlobTag, BlobParams))
        => ser.phase = "failed" /\ IsErr(ser.restored)

\* C26 witness: UserMessage.deserialize was given a blob tagged "Ghost"
\* whose parameters a UserMessage would accept, and raised ValueError.
C26_Witness ==
    /\ ser.phase = "failed"
    /\ ser.via = "UserMessage"
    /\ BlobTag = "Ghost"
    /\ ~ConstructorRejects("UserMessage", BlobParams)
    /\ ser.restored = PyErr("ValueError")

\* The name is absent, or made of 1 to 64 alphanumeric characters and
\* underscores.
NameWellFormed(name) ==
    \/ name.k = "none"
    \/ /\ name.k = "str"
       /\ TextChars(name.s).other = 0
       /\ TextLen(name.s) \in 1..64

\* C27: constructing a message succeeds exactly when its name is absent or
\* made of 1 to 64 alphanumeric characters and underscores.
C27_NameValidated ==
    (/\ ser.phase \in {"constructed", "rejected"}
     /\ ser.cls \in MessageClasses
     /\ RequiredArgs(ser.cls) \subseteq DOMAIN ser.kw)
        => (ser.phase = "constructed"
                <=> NameWellFormed(ArgOr(ser.kw, "name", PyNone)))

\* The sampling values of a config are in their documented ranges (tenths).
SamplingInRange(attrs) ==
    /\ attrs.temperature.n \in 0..20
    /\ attrs.presence_penalty.n \in -20..20
    /\ attrs.frequency_penalty.n \in -20..20

\* C30: every ModelConfig constructed, or rebuilt by deserialize, has its
\* temperature in [0, 2] and its penalties in [-2, 2]; an out-of-range value
\* yields no config.
C30_SamplingInRange ==
    /\ (ser.phase \in {"constructed", "assigned", "serialized"}
        /\ ser.cls = "ModelConfig") => SamplingInRange(ser.obj.attrs)
    /\ (ser.phase = "restored" /\ ser.restored.cls = "ModelConfig")
        => SamplingInRange(ser.restored.attrs)

\* ------------------------------------------------ the caller's ModelConfig
\* C28: no step of a run changes a field of the ModelConfig the loop was
\* given: at every point of the run, and after it, the config equals the
\* config the caller passed in.
C28_ConfigNotMutated == config = CallerConfig

\* C28 witness: a run that requested a completion twice (to_dict read the
\* config each time), used a tool in between and has ended, with the config
\* as the caller passed it.
C28_Witness ==
    /\ pc = "ended"
    /\ pass = 2
    /\ \E k \in DOMAIN uses : uses[k].outcome = "returned"
    /\ ToDict(config).function_call = "none"
    /\ config = CallerConfig

\* =========================================================================
\* One ToolsManager shared by two conversations (chatgpt/tools.py): each
\* conversation calls use() once, and the calls interleave where use()
\* awaits the tool body.
\* =========================================================================
Conversations == {1, 2}

NoTool == [name |-> "", parameters |-> << >>]

\* ToolsManager._tool_from_name over self.tools, lines 33-38: the index of
\* the first tool of that name, 0 when the loop ends without one.
RECURSIVE ToolFromNameIn(_, _, _)
ToolFromNameIn(tools, name, i) ==
    IF i > Len(tools) THEN 0
    ELSE IF tools[i].name = name THEN i
    ELSE ToolFromNameIn(tools, name, i + 1)

\* Mutant: the lookup takes the tool it found out of the list.
ToolsAfterLookup_Consumes(tools, idx) ==
    IF idx = 0 THEN tools
    ELSE SubSeq(tools, 1, idx - 1) \o SubSeq(tools, idx + 1, Len(tools))

\* ToolsManager.use, lines 19-31, and _tool_from_name, lines 33-38, read
\* self.tools and assign nothing to it.
ToolsAfterLookup(tools, idx) == tools

\* ToolsManager.use, lines 29-31, with the tool the lookup returned.
WrapResultOf(tool, result) ==
    IF tool # NoTool /\ result.type # "None"
    THEN ToolResultMsg(0, result.content, tool.name)
    ELSE result

Call(at, usage, tool, body, ret) ==
    [at |-> at, usage |-> usage, tool |-> tool, body |-> body, ret |-> ret]

IdleCall == Call("idle", <<"", << >> >>, NoTool, NoneVal, NoneVal)

SharedInit ==
    /\ mgr = [phase |-> "shared", tools |-> Tools,
              calls |-> [c \in Conversations |-> IdleCall], log |-> << >>]
    /\ em = Unused
    /\ ser = Unused
    /\ LoopUnused
    /\ db = Unused
    /\ ch = Unused
    /\ met = Unused

\* use() of conversation c for a tool name that is not in the list: the
\* message of the ToolError is returned (lines 22, 26-27, 29-31).
SharedLookupFails(c) ==
    /\ mgr.phase = "shared"
    /\ mgr.calls[c].at = "idle"
    /\ \E u \in UsageInputs :
        /\ ToolFromNameIn(mgr.tools, u[1], 1) = 0
        /\ LET ret == WrapResultOf(NoTool,
                          ExceptionResult(<<"Tool not found", u[1]>>))
           IN  mgr' = [mgr EXCEPT
                    !.tools = ToolsAfterLookup(@, 0),
                    !.calls[c] = Call("done", u, NoTool, NoneVal, ret),
                    !.log = @ \o << <<c, "lookup">>, <<c, "return">> >>]
    /\ UNCHANGED << vars, em, ser, db, ch, met >>

\* use() of conversation c for arguments that _validate_params rejects:
\* the message of the ToolError is the result (lines 22-23, 26-31).
SharedValidationFails(c) ==
    /\ mgr.phase = "shared"
    /\ mgr.calls[c].at = "idle"
    /\ \E u \in UsageInputs :
        LET idx == ToolFromNameIn(mgr.tools, u[1], 1)
        IN  /\ idx # 0
            /\ ~ValidateParams(mgr.tools[idx], u[2]).ok
            /\ LET tool == mgr.tools[idx]
                   ret == WrapResultOf(tool,
                              ExceptionResult(ValidateParams(tool, u[2]).error))
               IN  mgr' = [mgr EXCEPT
                        !.tools = ToolsAfterLookup(@, idx),
                        !.calls[c] = Call("done", u, tool, NoneVal, ret),
                        !.log = @ \o << <<c, "lookup">>, <<c, "return">> >>]
    /\ UNCHANGED << vars, em, ser, db, ch, met >>

\* use() of conversation c finds the tool, the arguments are accepted and
\* the call is suspended on the tool body (line 23).
SharedBodyStarts(c) ==
    /\ mgr.phase = "shared"
    /\ mgr.calls[c].at = "idle"
    /\ \E u \in UsageInputs :
        LET idx == ToolFromNameIn(mgr.tools, u[1], 1)
        IN  /\ idx # 0
            /\ ValidateParams(mgr.tools[idx], u[2]).ok
            /\ mgr' = [mgr EXCEPT
                    !.tools = ToolsAfterLookup(@, idx),
                    !.calls[c] = Call("body", u, mgr.tools[idx], NoneVal, NoneVal),
                    !.log = Append(@, <<c, "lookup">>)]
    /\ UNCHANGED << vars, em, ser, db, ch, met >>

\* What the body of a tool may do: return a text, raise (the message is the
\* result, lines 26-27) or be cancelled (the result stays None, 24-25).
BodyOutcomes ==
    { StrVal(t) : t \in BodyTexts }
    \cup { ExceptionResult(e) : e \in BodyErrors }
    \cup { CancelledResult }

\* The tool body of conversation c ends and use() returns (lines 29-31).
SharedBodyEnds(c) ==
    /\ mgr.phase = "shared"
    /\ mgr.calls[c].at = "body"
    /\ \E body \in BodyOutcomes :
        mgr' = [mgr EXCEPT
            !.calls[c] = [@ EXCEPT !.at = "done", !.body = body,
                                   !.ret = WrapResultOf(mgr.calls[c].tool, body)],
            !.log = Append(@, <<c, "return">>)]
    /\ UNCHANGED << vars, em, ser, db, ch, met >>

SharedNext ==
    \E c \in Conversations :
        \/ SharedLookupFails(c)
        \/ SharedValidationFails(c)
        \/ SharedBodyStarts(c)
        \/ SharedBodyEnds(c)

SharedSpec == SharedInit /\ [][SharedNext]_<< vars, aux >>

\* What use(u) returns on a ToolsManager of its own, when the tool body does
\* body.
UseAlone(u, body) ==
    LET idx == ToolFromName(u[1])
    IN  IF idx = 0
        THEN WrapResult(0, ExceptionResult(<<"Tool not found", u[1]>>), 0)
        ELSE LET v == ValidateParams(Tools[idx], u[2])
             IN  IF ~v.ok THEN WrapResult(idx, ExceptionResult(v.error), 0)
                 ELSE WrapResult(idx, body, 0)

\* C29: use() never changes the manager's tool list, and each of two
\* conversations interleaving use() calls on one shared ToolsManager gets
\* the result it would get alone.
C29_SharedUseAsAlone ==
    /\ mgr.tools = Tools
    /\ \A c \in Conversations :
          mgr.calls[c].at = "done" =>
              mgr.calls[c].ret = UseAlone(mgr.calls[c].usage, mgr.calls[c].body)

\* C29 witness: conversation 2 looked up and used "weather" while the call
\* of conversation 1 for the same tool was suspended on the tool body, and
\* both got a ToolResult of "weather".
C29_Witness ==
    /\ mgr.log = << <<1, "lookup">>, <<2, "lookup">>, <<2, "return">>,
                    <<1, "return">> >>
    /\ \A c \in Conversations :
          /\ mgr.calls[c].usage[1] = "weather"
          /\ IsToolResult(mgr.calls[c].ret)
          /\ mgr.calls[c].ret.name = "weather"

\* ------------------------------------------- a callback that raises
\* The log entries of handler h in trigger t, of one kind.
LogOfIn(what, t, h) ==
    { p \in LogOf(what) : em.log[p].t = t /\ em.log[p].h = h }

\* C36: when an observer's callback raises during a trigger, the exception
\* leaves the trigger, the observers later in the list are not called for
\* that event, and the implementing observers earlier in the list have been
\* called exactly once.
C36_RaisePropagates ==
    \A p \in LogOf("raised") :
        LET t == em.log[p].t
            h == em.log[p].h
        IN  /\ em.phase = "failed"
            /\ em.error = "CallbackError"
            /\ p = Len(em.log)
            /\ t = Len(em.fired)
            /\ \A q \in DOMAIN em.log : em.log[q].t = t => em.log[q].h <= h
            /\ Cardinality(LogOfIn("start", t, h)) = 1
            /\ \A i \in DOMAIN em.handlers :
                  (i < h /\ em.fired[t] \in em.handlers[i].caps) =>
                      /\ Cardinality(LogOfIn("start", t, i)) = 1
                      /\ Cardinality(LogOfIn("returned", t, i)) = 1

\* C36 witness: on tool_use the callback of the first observer raised; the
\* second observer, which implements tool_use, was not called, and the
\* trigger did not return.
C36_Witness ==
    /\ em.phase = "failed"
    /\ em.handlers = << ConsoleHandler, ToolUseObserver >>
    /\ em.fired # << >>
    /\ em.fired[Len(em.fired)] = "tool_use"
    /\ StartedIn(Len(em.fired)) = << 1 >>
    /\ em.log[Len(em.log)].what = "raised"
    /\ ~Returned(Len(em.fired))

\* --------------------------------------- tool usages and results in memory
\* C35: every ToolResult the loop added to memory comes right after the
\* ToolUsage whose execution returned it and carries that usage's tool
\* name, and a ToolUsage in memory is followed by at most one ToolResult.
C35_ResultFollowsItsUsage ==
    \A i \in DOMAIN memory :
        IsToolResult(memory[i]) =>
            /\ i > 1
            /\ IsToolUsage(memory[i - 1])
            /\ memory[i].name = memory[i - 1].tool
            /\ \E k \in DOMAIN uses :
                  uses[k].usage = memory[i - 1] /\ uses[k].ret = memory[i]
            /\ i < Len(memory) => ~IsToolResult(memory[i + 1])

\* C35 witness: the run has ended with the result of "weather" in memory
\* right after the usage of "weather", followed by the final reply.
C35_Witness ==
    /\ pc = "ended"
    /\ \E i \in DOMAIN memory :
          /\ i > 1
          /\ i < Len(memory)
          /\ IsToolResult(memory[i])
          /\ memory[i].name = "weather"
          /\ IsToolUsage(memory[i - 1])
          /\ memory[i + 1].type = "ModelMessage"

\* =========================================================================
\* The messages table (database/utils.py): messages are added, then the
\* messages of a chat or of a topic are deleted and listed.
\* =========================================================================
ChatIds == {1, 2}

\* A topic id: None, or the id of a forum topic.
TopicIds == {PyNone, PyInt(1), PyInt(2)}

\* One row of the table; (id, chat_id) is its key.
Row(id, chat, topic) == [id |-> id, chat_id |-> chat, topic_id |-> topic]

\* "if topic_id": None and 0 are falsy.
Truthy(v) == v.k = "int" /\ v.n # 0

\* session.merge(message), lines 144-146: the row of that key is inserted
\* or replaced.
Merge(rows, row) ==
    { r \in rows : ~(r.id = row.id /\ r.chat_id = row.chat_id) } \cup {row}

\* The rows selected by get_messages, lines 160-162: those of the chat,
\* and of the topic when one is given.
GetMessagesFilter(rows, chat, topic) ==
    { r \in rows :
        /\ r.chat_id = chat
        /\ Truthy(topic) => r.topic_id = topic }

\* order_by(Message.id), line 163.
RECURSIVE OrderById(_, _)
OrderById(rows, id) ==
    IF id > MaxMessages THEN << >>
    ELSE LET here == { r \in rows : r.id = id }
         IN  (IF here = {} THEN << >> ELSE << CHOOSE r \in here : TRUE >>)
                 \o OrderById(rows, id + 1)

\* get_messages, lines 149-164.
GetMessages(rows, chat, topic) ==
    OrderById(GetMessagesFilter(rows, chat, topic), 1)

\* The rows selected by delete_messages, lines 177-181: those of the chat
\* and of the topic when one is given, those of the chat with no topic
\* otherwise.
DeleteMessagesFilter(rows, chat, topic) ==
    { r \in rows :
        /\ r.chat_id = chat
        /\ IF Truthy(topic) THEN r.topic_id = topic
           ELSE r.topic_id = PyNone }

DbInit ==
    /\ db = [phase |-> "filling", rows |-> {}, before |-> {}, chat |-> 0,
             topic |-> PyNone, asked |-> PyNone, got |-> << >>]
    /\ em = Unused
    /\ ser = Unused
    /\ mgr = Unused
    /\ ch = Unused
    /\ met = Unused
    /\ LoopUnused

\* add_message, lines 115-146, for a message that is no reply: the row is
\* merged into the table.
AddMessage ==
    /\ db.phase = "filling"
    /\ \E id \in 1..MaxMessages, chat \in ChatIds, topic \in TopicIds :
          db' = [db EXCEPT !.rows = Merge(@, Row(id, chat, topic))]
    /\ UNCHANGED << vars, em, ser, mgr, ch, met >>

\* delete_messages(chat_id, topic_id), lines 167-183.
DeleteMessages ==
    /\ db.phase = "filling"
    /\ \E chat \in ChatIds, topic \in TopicIds :
          db' = [db EXCEPT
                   !.phase = "deleted", !.before = db.rows,
                   !.chat = chat, !.topic = topic,
                   !.rows = @ \ DeleteMessagesFilter(@, chat, topic)]
    /\ UNCHANGED << vars, em, ser, mgr, ch, met >>

\* get_messages(chat_id, topic_id), lines 149-164, on the chat whose
\* messages were deleted.
GetMessagesCall ==
    /\ db.phase = "deleted"
    /\ \E topic \in TopicIds :
          db' = [db EXCEPT !.phase = "listed", !.asked = topic,
                           !.got = GetMessages(db.rows, db.chat, topic)]
    /\ UNCHANGED << vars, em, ser, mgr, ch, met >>

DbNext ==
    \/ AddMessage
    \/ DeleteMessages
    \/ GetMessagesCall

DbSpec == DbInit /\ [][DbNext]_<< vars, aux >>

\* C31: delete_messages without a topic deletes all messages of the chat,
\* so that get_messages without a topic then returns the empty list; with a
\* topic it deletes exactly the messages get_messages returns for that chat
\* and topic; all other messages stay as they were.
C31_DeleteMatchesGet ==
    /\ db.phase \in {"deleted", "listed"} =>
          db.rows = db.before \ GetMessagesFilter(db.before, db.chat, db.topic)
    /\ (db.phase = "listed" /\ db.topic = PyNone /\ db.asked = PyNone) =>
          db.got = << >>

\* With a topic, delete_messages deletes exactly what get_messages lists.
C31_DeleteOfTopicMatchesGet ==
    (db.phase \in {"deleted", "listed"} /\ db.topic # PyNone) =>
        db.rows = db.before \ GetMessagesFilter(db.before, db.chat, db.topic)

\* =========================================================================
\* ModelMessageHandler (bot/chat_handler.py) receiving the events of the
\* generation passes of one run: packets are counted and sent in chunks.
\* =========================================================================

\* ModelMessageHandler.CHUNK_SIZE, line 38.
CHUNK_SIZE == 10

\* _send_packet, lines 110-123, with the text to show standing for the
\* number of packets it aggregates: nothing is sent when the text is the
\* one sent last; the first text is sent as a new message (self.reply is
\* set), a later one edits it.
SendPacket(h, text) ==
    IF text = h.last_message THEN h
    ELSE [h EXCEPT !.reply = TRUE, !.last_message = text, !.shown = @ + 1]

ChunkInit ==
    /\ ch = [phase |-> "idle", pass |-> 0, counter |-> 0, last_message |-> 0,
             reply |-> FALSE, shown |-> 0, received |-> 0, sends |-> 0,
             since |-> 0, gaps |-> << >>, sent_now |-> FALSE,
             ignored |-> 0]
    /\ em = Unused
    /\ ser = Unused
    /\ mgr = Unused
    /\ db = Unused
    /\ met = Unused
    /\ LoopUnused

\* on_model_start, lines 49-55: the handler's state is reset.
OnModelStart ==
    /\ ch.phase \in {"idle", "ended"}
    /\ ch.pass < MaxPasses
    /\ ch' = [ch EXCEPT !.phase = "streaming", !.pass = @ + 1,
                        !.counter = 0, !.last_message = 0, !.reply = FALSE,
                        !.received = 0, !.sends = 0, !.since = 0,
                        !.gaps = << >>, !.sent_now = FALSE, !.ignored = 0]
    /\ UNCHANGED << vars, em, ser, mgr, db, met >>

\* on_model_generation, lines 58-59, for a packet with no aggregated
\* reply yet (the first packet of a pass may be one): nothing is counted.
OnEmptyGeneration ==
    /\ ch.phase = "streaming"
    /\ ch.received = 0
    /\ ch.ignored = 0
    /\ ch' = [ch EXCEPT !.sent_now = FALSE, !.ignored = @ + 1]
    /\ UNCHANGED << vars, em, ser, mgr, db, met >>

\* on_model_generation, lines 57-67, for a packet with an aggregated
\* reply: the packet is counted while the counter is below CHUNK_SIZE; the
\* aggregated reply is sent and the counter reset otherwise.
OnModelGeneration ==
    /\ ch.phase = "streaming"
    /\ ch.received < MaxStream
    /\ IF ch.counter < CHUNK_SIZE
       THEN ch' = [ch EXCEPT !.counter = @ + 1, !.received = @ + 1,
                             !.since = @ + 1, !.sent_now = FALSE]
       ELSE ch' = [SendPacket(ch, ch.received + 1) EXCEPT
                      !.counter = 0, !.received = @ + 1, !.since = 0,
                      !.sends = @ + 1, !.gaps = Append(@, ch.since + 1),
                      !.sent_now = TRUE]
    /\ UNCHANGED << vars, em, ser, mgr, db, met >>

\* on_model_end, lines 69-74: what was not sent yet is sent.
OnModelEnd ==
    /\ ch.phase = "streaming"
    /\ ch' = [(IF ~ch.reply \/ ch.counter > 0
               THEN SendPacket(ch, ch.received) ELSE ch)
                 EXCEPT !.phase = "ended", !.sent_now = FALSE]
    /\ UNCHANGED << vars, em, ser, mgr, db, met >>

ChunkNext ==
    \/ OnModelStart
    \/ OnEmptyGeneration
    \/ OnModelGeneration
    \/ OnModelEnd

ChunkSpec == ChunkInit /\ [][ChunkNext]_<< vars, aux >>

\* C32: while a reply streams, the handler sends once per CHUNK_SIZE
\* received non-empty packets: the counter stays within 0..CHUNK_SIZE, is 0
\* after every send, and CHUNK_SIZE packets are received from one send to
\* the next.
C32_SendPerChunk ==
    ch.phase = "streaming" =>
        /\ ch.counter \in 0..CHUNK_SIZE
        /\ ch.sent_now => ch.counter = 0
        /\ ch.sends = ch.received \div CHUNK_SIZE
        /\ \A i \in DOMAIN ch.gaps : ch.gaps[i] = CHUNK_SIZE

\* What the code does: the counter stays within 0..CHUNK_SIZE and is 0
\* after every send, and one send is made per CHUNK_SIZE + 1 packets.
C32_SendPerChunkPlusOne ==
    ch.phase = "streaming" =>
        /\ ch.counter \in 0..CHUNK_SIZE
        /\ ch.sent_now => ch.counter = 0
        /\ ch.sends = ch.received \div (CHUNK_SIZE + 1)
        /\ \A i \in DOMAIN ch.gaps : ch.gaps[i] = CHUNK_SIZE + 1

\* =========================================================================
\* ModelMessageHandler observing the run: the usage of the messages handed
\* to on_tool_use and on_model_reply is added to the metrics of the user
\* and of the chat.
\* =========================================================================

\* The contributions added to the two metrics records, each known by the id
\* of the message whose tokens and cost it carries.
NoMetrics == [user |-> << >>, chat |-> << >>]

\* _handle_metrics, lines 92-108: the message's tokens and cost are added
\* to the user's metrics, then to the chat's.
HandleMetrics(metrics, m) ==
    [user |-> Append(metrics.user, m.id), chat |-> Append(metrics.chat, m.id)]

\* Mutant: on_tool_use without the call of _handle_metrics.
OnToolUse_NoMetrics(metrics, usage) == metrics

\* on_tool_use, lines 76-77.
OnToolUse(metrics, usage) == HandleMetrics(metrics, usage)

\* on_model_reply, lines 83-84.
OnModelReply(metrics, r) == HandleMetrics(metrics, r)

\* The metrics after the first n events of the run were delivered to the
\* handler.
RECURSIVE MetricsAfter(_, _)
MetricsAfter(evs, n) ==
    IF n = 0 THEN NoMetrics
    ELSE LET before == MetricsAfter(evs, n - 1)
         IN  CASE evs[n].type = "tool_use" -> OnToolUse(before, evs[n].msg)
               [] evs[n].type = "model_reply" -> OnModelReply(before, evs[n].msg)
               [] OTHER -> before

Metrics == MetricsAfter(events, Len(events))

\* The messages the generation passes of this run added to memory.
RunReplies ==
    IF contexts = << >> THEN {}
    ELSE { memory[i] : i \in { j \in DOMAIN memory :
                                 /\ j > Len(contexts[1])
                                 /\ IsModelMessage(memory[j]) } }

Times(s, x) == Cardinality({ i \in DOMAIN s : s[i] = x })

\* C33: the usage of every message a generation pass added to memory has
\* been added to the user's and to the chat's metrics exactly once, and
\* nothing else has been added, however tool use and interruption
\* interleave.
C33_UsageCountedOnce ==
    /\ \A m \in RunReplies :
          /\ Times(Metrics.user, m.id) = 1
          /\ Times(Metrics.chat, m.id) = 1
    /\ \A i \in DOMAIN Metrics.user :
          \E m \in RunReplies : m.id = Metrics.user[i]
    /\ Metrics.user = Metrics.chat

\* C33 witness: the run was interrupted while its tool ran and has ended;
\* the tool usage is in memory and was counted through on_tool_use, and no
\* model_reply followed.
C33_Witness ==
    /\ pc = "ended"
    /\ stopAt = "tool_running"
    /\ Len(Metrics.user) = 1
    /\ \E m \in RunReplies : IsToolUsage(m) /\ Metrics.user = << m.id >>
    /\ EventsOf("model_reply") = {}

\* =========================================================================
\* MetricsHandler (chatgpt/events.py, lines 192-250) receiving model_start
\* and model_end, pass after pass.
\* =========================================================================

\* The token counts of the entries of a list of prompts, added up
\* (chatgpt.utils.messages_tokens).
RECURSIVE MessagesTokens(_)
MessagesTokens(prompts) ==
    IF prompts = << >> THEN 0
    ELSE Head(prompts) + MessagesTokens(Tail(prompts))

\* chatgpt.utils.tokens_cost, with one unit of cost per token.
TokensCost(n) == n

\* The contexts and tool lists on_model_start is given, each message and
\* each tool declaration standing for its number of tokens.
ContextInputs == { << 2 >>, << 2, 3 >>, << 2, 3, 4 >> }
ToolListInputs == { << >>, << 1 >> }

\* The tokens of the text of the message on_model_end is given.
GeneratedInputs == {1, 3}

\* Whether the config handed to on_model_start has a model_name attribute:
\* ModelConfig defines none (core.py:154-179) and takes any keyword
\* argument as an attribute (core.py:28).
ModelNameInputs == {"absent", "gpt-3.5-turbo"}

\* __init__, lines 195-202.
MetricsInit ==
    /\ met \in { [phase |-> "idle", model_name |-> n, prompts |-> << >>,
                  model |-> "unset", prompts_tokens |-> 0,
                  generated_tokens |-> 0, cost |-> 0, ctxs |-> << >>,
                  error |-> "none"] : n \in ModelNameInputs }
    /\ em = Unused
    /\ ser = Unused
    /\ mgr = Unused
    /\ db = Unused
    /\ ch = Unused
    /\ LoopUnused

\* on_model_start, lines 204-210: the context and the tools are added to
\* the tracked prompts, then the model's name is read.
MetricsOnModelStart ==
    /\ met.phase \in {"idle", "ended"}
    /\ Len(met.ctxs) < MaxPasses
    /\ \E ctx \in ContextInputs, tools \in ToolListInputs :
          LET tracked == met.prompts \o ctx \o tools
          IN  IF met.model_name = "absent"
              THEN met' = [met EXCEPT !.prompts = tracked,
                                      !.ctxs = Append(@, MessagesTokens(ctx \o tools)),
                                      !.phase = "failed",
                                      !.error = "AttributeError"]
              ELSE met' = [met EXCEPT !.prompts = tracked,
                                      !.ctxs = Append(@, MessagesTokens(ctx \o tools)),
                                      !.model = met.model_name,
                                      !.phase = "started"]
    /\ UNCHANGED << vars, em, ser, mgr, db, ch >>

\* on_model_end, lines 212-235: the tokens of all tracked prompts and of
\* the generated text are added, and the cost is computed from the totals.
MetricsOnModelEnd ==
    /\ met.phase = "started"
    /\ \E g \in GeneratedInputs :
          LET p == met.prompts_tokens + MessagesTokens(met.prompts)
              r == met.generated_tokens + g
          IN  met' = [met EXCEPT !.prompts_tokens = p,
                                 !.generated_tokens = r,
                                 !.cost = TokensCost(p) + TokensCost(r),
                                 !.phase = "ended"]
    /\ UNCHANGED << vars, em, ser, mgr, db, ch >>

MetricsNext ==
    \/ MetricsOnModelStart
    \/ MetricsOnModelEnd

MetricsSpec == MetricsInit /\ [][MetricsNext]_<< vars, aux >>

\* C34: the prompt of each generation pass is counted once: after
\* on_model_start(ctx1), on_model_end, on_model_start(ctx2), on_model_end,
\* prompts_tokens is tokens(ctx1) + tokens(ctx2).
C34_PromptCountedOncePerPass ==
    met.phase = "ended" => met.prompts_tokens = MessagesTokens(met.ctxs)

\* After the first pass the prompt has been counted once.
C34_FirstPromptCountedOnce ==
    (met.phase = "ended" /\ Len(met.ctxs) = 1) =>
        met.prompts_tokens = met.ctxs[1]
====
